---- MODULE Spec2Model ----
(***************************************************************************)
(* Model of the audit-ai-backend analytics / alerting core and of the      *)
(* Gemini tool-calling chat loop.                                          *)
(*                                                                         *)
(* Conventions of the model                                                *)
(*  - Time is a day number; a month has DaysPerMonth days.  created_at is  *)
(*    kept at day granularity, and the process clock and the SQLite clock  *)
(*    are taken to agree on the calendar day (server running in UTC).      *)
(*  - Amounts are integers (whole dollars); every comparison the code does *)
(*    on a quotient is done here by cross-multiplication.                  *)
(*  - Strings are TLA+ strings; String.includes is Includes below, and the *)
(*    alert `data` column is the JSON text the code writes.                *)
(*  - A table is a sequence of rows in insertion order (rowid order).      *)
(***************************************************************************)
EXTENDS Integers, Sequences, FiniteSets, TLC

VARIABLES
    today,          \* current calendar day (new Date() / date('now'))
    transactions,   \* table transactions
    budgets,        \* table budgets
    goals,          \* table financial_goals
    alerts,         \* table alerts
    anomalies,      \* table anomalies
    recurring,      \* table recurring_transactions
    conversations,  \* table conversations
    notifications,  \* table notifications
    mon,            \* in-flight / last runAllMonitoring invocation per slot
    det,            \* bookkeeping of the last detection / goal operation
    chat,           \* the conversation turn in progress (GeminiAccountantService.chat)
    forecasts,      \* table cash_flow_forecasts
    out,            \* what the last read request returned
    clock           \* CURRENT_TIMESTAMP, in seconds

vars == <<today, transactions, budgets, goals, alerts, anomalies, recurring,
          conversations, notifications, mon, det, chat, forecasts, out, clock>>

-----------------------------------------------------------------------------
(* Bounds of the model *)

MaxDay == 1
MaxTx == 9
MaxAlerts == 9
MaxAnomalies == 2
MaxRecurring == 3
MaxAcks == 1
MaxReviews == 1
MaxTurns == 2
MaxBudgets == 2
MaxMonths == 5
MaxForecasts == 6
MaxSeconds == 1
MaxMessages == 3
MaxLimit == 2
MaxStreams == 1
MaxClientRows == 1

(* Program constants *)

DaysPerMonth == 30
NoDate == -1          \* SQL NULL in a date column
NoThreshold == -1     \* SQL NULL in budgets.alert_threshold
NoFilter == -1        \* a number the function call does not carry
FirstDay == -720      \* '1970-01-01'
LastDay == 720        \* '2099-12-31'
RecentLimit == 50
DataLimit == 30
CashThreshold == 5000
LowReserves == 10000
MaxInsights == 10
AtRiskDays == 30
TrendMonths == 3
AnomalyThreshold == 3
MinGroupSize == 3
MinOccurrences == 3

Users == {"u1", "u2"}

-----------------------------------------------------------------------------
(* Generic helpers *)

RECURSIVE SumSeq(_)
SumSeq(s) == IF s = <<>> THEN 0 ELSE Head(s) + SumSeq(Tail(s))

RECURSIVE MapAmount(_)
MapAmount(s) == IF s = <<>> THEN <<>> ELSE <<Head(s).amount>> \o MapAmount(Tail(s))

SeqToSet(s) == {s[i] : i \in 1..Len(s)}

Abs(n) == IF n < 0 THEN -n ELSE n

\* (a / b).toFixed(0) for a >= 0, b > 0: nearest integer
RoundDiv(a, b) == (2 * a + b) \div (2 * b)

\* String.prototype.includes
Includes(s, needle) ==
    \E i \in 1..(Len(s) - Len(needle) + 1) : SubSeq(s, i, i + Len(needle) - 1) = needle

\* JSON.stringify of a string without characters that need escaping
JsonString(s) == "\"" \o s \o "\""

MonthOf(d) == d \div DaysPerMonth

DayPoint(i) == DaysPerMonth * (1 + (i \div 2)) + 10 + (i % 2)

-----------------------------------------------------------------------------
(* TransactionRepository *)

UserTransactions(userId) == SelectSeq(transactions, LAMBDA t : t.user_id = userId)

\* getFinancialSummary: revenue, expenses and profit over all of the owner's rows
GetFinancialSummary(userId) ==
    LET ts == UserTransactions(userId)
        revenue == SumSeq(MapAmount(SelectSeq(ts, LAMBDA t : t.type = "income")))
        expenses == SumSeq(MapAmount(SelectSeq(ts, LAMBDA t : t.type = "expense")))
    IN  [revenue |-> revenue, expenses |-> expenses, profit |-> revenue - expenses]

\* getTransactionsByCategory (no date bounds): every row of the category, both types
GetTransactionsByCategory(userId, category) ==
    SelectSeq(transactions, LAMBDA t : t.user_id = userId /\ t.category = category)

\* the rows of one (category, type) group, the GROUP BY of getAnomalousTransactions
GroupRows(userId, category, type) ==
    SelectSeq(transactions,
              LAMBDA t : t.user_id = userId /\ t.category = category /\ t.type = type)

\* amount >= AVG(amount) * threshold
AtOrAboveGroupMean(t, rows, threshold) ==
    t.amount * Len(rows) >= threshold * SumSeq(MapAmount(rows))

\* amount > AVG(amount) * threshold, with AVG = sum / count
AboveGroupMean(t, rows, threshold) ==
    t.amount * Len(rows) > threshold * SumSeq(MapAmount(rows))

\* getAnomalousTransactions: rows of groups with count >= 3 whose amount exceeds
\* the group mean times the threshold (returned here in rowid order)
GetAnomalousTransactions(userId, threshold) ==
    SelectSeq(transactions,
              LAMBDA t : /\ t.user_id = userId
                         /\ LET rows == GroupRows(userId, t.category, t.type)
                            IN  /\ Len(rows) >= MinGroupSize
                                /\ AboveGroupMean(t, rows, threshold))

\* transactionRepository.addTransaction: INSERT, the rowid is returned
InsertTransaction(ts, row) == Append(ts, [row EXCEPT !.id = Len(ts) + 1])

-----------------------------------------------------------------------------
(* AnalyticsRepository, BudgetRepository, GoalRepository *)

\* The categories of the model in SQLite's BINARY order (ORDER BY category)
CategoryOrder == <<"Office", "Office Supplies", "Software">>

\* getMonthlyTrends(userId, months): one row per month that has a transaction
\* dated within the trailing window, newest month first
GetMonthlyTrends(userId, months) ==
    LET rows == SelectSeq(transactions,
                          LAMBDA t : /\ t.user_id = userId
                                     /\ t.date >= today - months * DaysPerMonth)
        periods == {MonthOf(rows[i].date) : i \in 1..Len(rows)}
        Row(p) ==
            LET inM == SelectSeq(rows, LAMBDA t : MonthOf(t.date) = p)
                income == SumSeq(MapAmount(SelectSeq(inM, LAMBDA t : t.type = "income")))
                expenses == SumSeq(MapAmount(SelectSeq(inM, LAMBDA t : t.type = "expense")))
            IN  [period |-> p, income |-> income, expenses |-> expenses,
                 profit |-> income - expenses]
        RECURSIVE Desc(_)
        Desc(ps) == IF ps = {} THEN <<>>
                    ELSE LET m == CHOOSE x \in ps : \A y \in ps : y <= x
                         IN  <<Row(m)>> \o Desc(ps \ {m})
    IN  Desc(periods)

\* getActiveBudgets: start_date <= today and (end_date IS NULL or end_date >= today),
\* ORDER BY category
GetActiveBudgets(userId) ==
    LET active == SelectSeq(budgets,
                            LAMBDA b : /\ b.user_id = userId
                                       /\ b.start_date <= today
                                       /\ (b.end_date = NoDate \/ b.end_date >= today))
        RECURSIVE ByCategory(_)
        ByCategory(i) ==
            IF i > Len(CategoryOrder) THEN <<>>
            ELSE SelectSeq(active, LAMBDA b : b.category = CategoryOrder[i])
                 \o ByCategory(i + 1)
    IN  ByCategory(1)

\* budget.alert_threshold || 0.9, in percent: NULL and 0 are both falsy
ThresholdPct(b) == IF b.alert_threshold \in {NoThreshold, 0} THEN 90 ELSE b.alert_threshold

\* getBudgetVariance: one variance per active budget over [startDate, endDate]
GetBudgetVariance(userId, startDate, endDate) ==
    LET Variance(b) ==
            LET spent == SelectSeq(transactions,
                                   LAMBDA t : /\ t.user_id = userId
                                              /\ t.category = b.category
                                              /\ t.date >= startDate
                                              /\ t.date <= endDate
                                              /\ t.type = "expense")
                actual == SumSeq(MapAmount(spent))
            IN  [budget |-> b,
                 actual |-> actual,
                 variance |-> b.amount - actual,
                 status |-> IF actual > b.amount THEN "over"
                            ELSE IF actual * 100 < b.amount * ThresholdPct(b) THEN "under"
                            ELSE "on_track"]
        active == GetActiveBudgets(userId)
    IN  [i \in 1..Len(active) |-> Variance(active[i])]

\* checkBudgetAlerts: the current month up to today, kept when over or when
\* actual / amount >= threshold (a 0 / 0 quotient is NaN and compares false)
CheckBudgetAlerts(userId) ==
    SelectSeq(GetBudgetVariance(userId, MonthOf(today) * DaysPerMonth, today),
              LAMBDA v : \/ v.status = "over"
                         \/ /\ v.budget.amount > 0
                            /\ v.actual * 100 >= v.budget.amount * ThresholdPct(v.budget))

\* getGoals(userId, status), ORDER BY created_at DESC: newest first
RECURSIVE Reverse(_)
Reverse(s) == IF s = <<>> THEN <<>> ELSE Append(Reverse(Tail(s)), Head(s))

GetGoals(userId, status) ==
    Reverse(SelectSeq(goals, LAMBDA g : g.user_id = userId /\ g.status = status))

\* progress_percentage as a whole percent (the modelled amounts divide evenly)
ProgressPct(g) ==
    IF g.target_amount > 0 THEN (g.current_amount * 100) \div g.target_amount ELSE 0

\* on_track: progress >= 90% of elapsed / total * 100; true without a deadline
OnTrack(g) ==
    IF g.deadline = NoDate THEN TRUE
    ELSE LET totalDays == g.deadline - g.created_at
             elapsedDays == today - g.created_at
         IN  IF totalDays > 0
             THEN IF g.target_amount > 0
                  THEN g.current_amount * 10 * totalDays
                          >= 9 * elapsedDays * g.target_amount
                  ELSE 0 >= elapsedDays
             ELSE TRUE

\* getGoalProgress: read-only view of the active goals
GetGoalProgress(userId) ==
    LET gs == GetGoals(userId, "active")
    IN  [i \in 1..Len(gs) |->
            [goal |-> gs[i],
             progress_percentage |-> ProgressPct(gs[i]),
             remaining_amount |-> gs[i].target_amount - gs[i].current_amount,
             has_days |-> gs[i].deadline # NoDate,
             days_remaining |-> IF gs[i].deadline = NoDate THEN 0
                                ELSE gs[i].deadline - today,
             on_track |-> OnTrack(gs[i])]]

\* checkGoalCompletion: every active goal with current_amount >= target_amount
\* is set to completed
CheckGoalCompletion(gs, userId) ==
    [i \in 1..Len(gs) |->
        IF /\ gs[i].user_id = userId
           /\ gs[i].status = "active"
           /\ gs[i].current_amount >= gs[i].target_amount
        THEN [gs[i] EXCEPT !.status = "completed"]
        ELSE gs[i]]

-----------------------------------------------------------------------------
(* AlertRepository.  Columns no modelled operation reads (title, description) *)
(* are left out of the rows; numbers in messages are written without digit    *)
(* grouping.                                                                  *)

\* createAlert: INSERT with created_at = CURRENT_TIMESTAMP
CreateAlert(al, alert) ==
    Append(al, [alert EXCEPT !.id = Len(al) + 1, !.created_at = today])

\* getAlerts(userId, includeRead, includeDismissed)
GetAlerts(al, userId, includeRead, includeDismissed) ==
    SelectSeq(al, LAMBDA a : /\ a.user_id = userId
                             /\ (includeRead \/ a.read = 0)
                             /\ (includeDismissed \/ a.dismissed = 0))

\* new Date(a.created_at).toDateString() === new Date().toDateString()
CreatedToday(a) == a.created_at = today

NewAlert(userId, type, severity, message, data) ==
    [id |-> 0, user_id |-> userId, alert_type |-> type, severity |-> severity,
     message |-> message, data |-> data, read |-> 0, dismissed |-> 0,
     created_at |-> 0]

\* createAnomaly; severity is kept as the exact quotient sev_num / sev_den
CreateAnomaly(an, anomaly) == Append(an, [anomaly EXCEPT !.id = Len(an) + 1])

\* getAnomalies(userId, includeReviewed)
GetAnomalies(an, userId, includeReviewed) ==
    SelectSeq(an, LAMBDA a : a.user_id = userId /\ (includeReviewed \/ a.reviewed = 0))

\* createRecurringTransaction / getRecurringTransactions
CreateRecurringTransaction(rc, row) == Append(rc, [row EXCEPT !.id = Len(rc) + 1])

GetRecurringTransactions(rc, userId) == SelectSeq(rc, LAMBDA r : r.user_id = userId)

-----------------------------------------------------------------------------
(* NotificationService: the four monitors, each a function from the alerts *)
(* table to the alerts table after the monitor ran                         *)

\* a check that never finds an alert
NoRecentAlert(al, userId) == FALSE

HasRecentCashAlert(al, userId) ==
    \E a \in SeqToSet(GetAlerts(al, userId, FALSE, FALSE)) :
        a.alert_type = "low_cash" /\ CreatedToday(a)

MonitorCashBalance(al, userId) ==
    LET summary == GetFinancialSummary(userId)
    IN  IF summary.profit < CashThreshold /\ ~HasRecentCashAlert(al, userId)
        THEN CreateAlert(al, NewAlert(userId, "low_cash",
                 IF 2 * summary.profit < CashThreshold THEN "critical" ELSE "warning",
                 "Your cash balance is $" \o ToString(summary.profit)
                     \o ", which is below the recommended threshold of $"
                     \o ToString(CashThreshold) \o ".",
                 "{\"current_balance\":" \o ToString(summary.profit)
                     \o ",\"threshold\":" \o ToString(CashThreshold) \o "}"))
        ELSE al

HasRecentBudgetAlert(al, userId, category) ==
    \E a \in SeqToSet(GetAlerts(al, userId, FALSE, FALSE)) :
        /\ a.alert_type = "budget_overrun"
        /\ Includes(a.data, category)
        /\ CreatedToday(a)

BudgetAlert(userId, v) ==
    NewAlert(userId, "budget_overrun",
        IF 10 * v.actual > 12 * v.budget.amount THEN "critical" ELSE "warning",
        "You've spent $" \o ToString(v.actual) \o " against a budget of $"
            \o ToString(v.budget.amount) \o " ("
            \o ToString(RoundDiv(100 * Abs(v.variance), v.budget.amount)) \o "% over).",
        "{\"category\":" \o JsonString(v.budget.category)
            \o ",\"budget\":" \o ToString(v.budget.amount)
            \o ",\"actual\":" \o ToString(v.actual) \o "}")

MonitorBudgets(al, userId) ==
    LET budgetAlerts == CheckBudgetAlerts(userId)
        RECURSIVE Loop(_, _)
        Loop(a, i) ==
            IF i > Len(budgetAlerts) THEN a
            ELSE Loop(IF ~HasRecentBudgetAlert(a, userId, budgetAlerts[i].budget.category)
                      THEN CreateAlert(a, BudgetAlert(userId, budgetAlerts[i]))
                      ELSE a,
                      i + 1)
    IN  Loop(al, 1)

HasRecentGoalAlert(al, userId, goalId) ==
    \E a \in SeqToSet(GetAlerts(al, userId, FALSE, FALSE)) :
        /\ a.alert_type = "goal_progress"
        /\ Includes(a.data, ToString(goalId))
        /\ CreatedToday(a)

HasMilestoneAlert(al, userId, goalId) ==
    \E a \in SeqToSet(GetAlerts(al, userId, TRUE, TRUE)) :
        /\ a.alert_type = "goal_progress"
        /\ Includes(a.data, ToString(goalId))
        /\ Includes(a.message, "50%")

\* days_remaining && days_remaining < 30 && !on_track  (0 and undefined are falsy)
GoalAtRisk(p) ==
    p.has_days /\ p.days_remaining # 0 /\ p.days_remaining < AtRiskDays /\ ~p.on_track

GoalAtMilestone(p) ==
    p.progress_percentage >= 50 /\ p.progress_percentage < 55 /\ p.on_track

MonitorGoals(al, userId) ==
    LET goalProgress == GetGoalProgress(userId)
        AtRisk(a, p) ==
            IF GoalAtRisk(p) /\ ~HasRecentGoalAlert(a, userId, p.goal.id)
            THEN CreateAlert(a, NewAlert(userId, "goal_progress", "warning",
                     "You're " \o ToString(p.progress_percentage)
                         \o "% towards your goal with " \o ToString(p.days_remaining)
                         \o " days remaining. You may need to accelerate progress.",
                     "{\"goal_id\":" \o ToString(p.goal.id)
                         \o ",\"progress\":" \o ToString(p.progress_percentage) \o "}"))
            ELSE a
        Milestone(a, p) ==
            IF GoalAtMilestone(p) /\ ~HasMilestoneAlert(a, userId, p.goal.id)
            THEN CreateAlert(a, NewAlert(userId, "goal_progress", "info",
                     "You've reached 50% of your " \o p.goal.description
                         \o " goal. Keep up the great work!",
                     "{\"goal_id\":" \o ToString(p.goal.id) \o ",\"milestone\":50}"))
            ELSE a
        RECURSIVE Loop(_, _)
        Loop(a, i) ==
            IF i > Len(goalProgress) THEN a
            ELSE Loop(Milestone(AtRisk(a, goalProgress[i]), goalProgress[i]), i + 1)
    IN  Loop(al, 1)

HasRecentTrendAlert(al, userId, word) ==
    \E a \in SeqToSet(GetAlerts(al, userId, FALSE, FALSE)) :
        /\ a.alert_type = "trend"
        /\ Includes(a.message, word)
        /\ CreatedToday(a)

MonitorTrends(al, userId) ==
    LET trends == GetMonthlyTrends(userId, TrendMonths)
    IN  IF Len(trends) < 2 THEN al
        ELSE
        LET latestMonth == trends[1]
            previousMonth == trends[2]
            afterRevenue ==
                IF /\ 10 * latestMonth.income < 8 * previousMonth.income
                   /\ ~HasRecentTrendAlert(al, userId, "revenue")
                THEN CreateAlert(al, NewAlert(userId, "trend", "warning",
                         "Your revenue dropped by "
                             \o ToString(RoundDiv(
                                    100 * (previousMonth.income - latestMonth.income),
                                    previousMonth.income))
                             \o "% this month compared to last month. From $"
                             \o ToString(previousMonth.income) \o " to $"
                             \o ToString(latestMonth.income) \o ".",
                         "{\"previous\":" \o ToString(previousMonth.income)
                             \o ",\"current\":" \o ToString(latestMonth.income) \o "}"))
                ELSE al
        IN  IF /\ 10 * latestMonth.expenses > 12 * previousMonth.expenses
               /\ ~HasRecentTrendAlert(afterRevenue, userId, "expenses")
            THEN CreateAlert(afterRevenue, NewAlert(userId, "trend", "warning",
                     "Your expenses increased by "
                         \o (IF previousMonth.expenses > 0
                             THEN ToString(RoundDiv(
                                      100 * (latestMonth.expenses - previousMonth.expenses),
                                      previousMonth.expenses))
                             ELSE "Infinity")
                         \o "% this month. From $"
                         \o ToString(previousMonth.expenses) \o " to $"
                         \o ToString(latestMonth.expenses) \o ".",
                     "{\"previous\":" \o ToString(previousMonth.expenses)
                         \o ",\"current\":" \o ToString(latestMonth.expenses) \o "}"))
            ELSE afterRevenue

-----------------------------------------------------------------------------
(* FinancialIntelligenceService: anomaly and recurring-pattern detection *)

AlreadyRecorded(an, userId, transactionId) ==
    \E a \in SeqToSet(GetAnomalies(an, userId, FALSE)) : a.transaction_id = transactionId

\* detectAnomalies: returns the anomalies and alerts tables after the run.
\* severity = amount / mean of the rows getTransactionsByCategory returns.
DetectAnomalies(an, al, userId) ==
    LET anomalous == GetAnomalousTransactions(userId, AnomalyThreshold)
        RECURSIVE Loop(_, _, _)
        Loop(a, l, i) ==
            IF i > Len(anomalous) THEN [anomalies |-> a, alerts |-> l]
            ELSE
            LET t == anomalous[i]
                amounts == MapAmount(GetTransactionsByCategory(userId, t.category))
                sevNum == t.amount * Len(amounts)
                sevDen == SumSeq(amounts)
            IN  IF ~AlreadyRecorded(a, userId, t.id) /\ t.id # 0
                THEN Loop(CreateAnomaly(a, [id |-> 0, user_id |-> userId,
                                            transaction_id |-> t.id,
                                            anomaly_type |-> "unusual_amount",
                                            sev_num |-> sevNum, sev_den |-> sevDen,
                                            reviewed |-> 0, false_positive |-> 0]),
                          CreateAlert(l, NewAlert(userId, "anomaly",
                              IF sevNum > 5 * sevDen THEN "critical" ELSE "warning",
                              "A transaction of $" \o ToString(t.amount) \o " for \""
                                  \o t.description
                                  \o "\" is significantly higher than your typical "
                                  \o t.category \o " expenses.",
                              "{\"transaction_id\":" \o ToString(t.id) \o "}")),
                          i + 1)
                ELSE Loop(a, l, i + 1)
    IN  Loop(an, al, 1)

\* transactionRepository.detectRecurringTransactions: GROUP BY description,
\* category, type HAVING COUNT(*) >= 3 ORDER BY occurrence_count DESC
\* (groups with equal counts are listed in the order of their first row)
DetectRecurringTransactions(userId) ==
    LET rows == UserTransactions(userId)
        Same(t, u) == /\ t.description = u.description
                      /\ t.category = u.category
                      /\ t.type = u.type
        Group(t) == SelectSeq(rows, LAMBDA u : Same(t, u))
        Pattern(t) ==
            LET g == Group(t)
                dates == {g[i].date : i \in 1..Len(g)}
            IN  [description |-> t.description, category |-> t.category,
                 type |-> t.type,
                 amount_sum |-> SumSeq(MapAmount(g)),
                 occurrence_count |-> Len(g),
                 first_date |-> CHOOSE d \in dates : \A e \in dates : d <= e,
                 last_date |-> CHOOSE d \in dates : \A e \in dates : e <= d]
        \* the first row of every group that has at least 3 rows
        firsts == SelectSeq(rows, LAMBDA t : /\ Len(Group(t)) >= MinOccurrences
                                             /\ Group(t)[1] = t)
        RECURSIVE ByCount(_)
        ByCount(n) ==
            IF n < MinOccurrences THEN <<>>
            ELSE SelectSeq(firsts, LAMBDA t : Len(Group(t)) = n) \o ByCount(n - 1)
        ordered == ByCount(Len(rows))
    IN  [i \in 1..Len(ordered) |-> Pattern(ordered[i])]

\* frequency from the mean gap (last - first) / (count - 1)
Frequency(pattern) ==
    LET daysDiff == pattern.last_date - pattern.first_date
        n == pattern.occurrence_count - 1
    IN  IF daysDiff <= 2 * n THEN "daily"
        ELSE IF daysDiff <= 9 * n THEN "weekly"
        ELSE IF daysDiff <= 40 * n THEN "monthly"
        ELSE IF daysDiff <= 120 * n THEN "quarterly"
        ELSE "yearly"

\* Math.min(0.95, occurrence_count / 10), in percent
Confidence(pattern) ==
    IF pattern.occurrence_count * 10 < 95 THEN pattern.occurrence_count * 10 ELSE 95

CalculateNextExpected(lastDate, frequency) ==
    CASE frequency = "daily" -> lastDate + 1
      [] frequency = "weekly" -> lastDate + 7
      [] frequency = "monthly" -> lastDate + DaysPerMonth
      [] frequency = "quarterly" -> lastDate + 3 * DaysPerMonth
      [] OTHER -> lastDate + 12 * DaysPerMonth

\* the same lookup keyed like the GROUP BY of the pattern query, with the type
AlreadyExistsOfType(rc, userId, pattern) ==
    \E r \in SeqToSet(GetRecurringTransactions(rc, userId)) :
        /\ r.description = pattern.description
        /\ r.category = pattern.category
        /\ r.type = pattern.type

AlreadyExists(rc, userId, pattern) ==
    \E r \in SeqToSet(GetRecurringTransactions(rc, userId)) :
        r.description = pattern.description /\ r.category = pattern.category

\* detectRecurringPatterns: returns the recurring_transactions table after the run
DetectRecurringPatterns(rc, userId) ==
    LET patterns == DetectRecurringTransactions(userId)
        RECURSIVE Loop(_, _)
        Loop(r, i) ==
            IF i > Len(patterns) THEN r
            ELSE Loop(IF ~AlreadyExists(r, userId, patterns[i])
                      THEN CreateRecurringTransaction(r,
                               [id |-> 0, user_id |-> userId,
                                description |-> patterns[i].description,
                                amount_sum |-> patterns[i].amount_sum,
                                amount_count |-> patterns[i].occurrence_count,
                                category |-> patterns[i].category,
                                type |-> patterns[i].type,
                                frequency |-> Frequency(patterns[i]),
                                confidence |-> Confidence(patterns[i]),
                                last_occurrence |-> patterns[i].last_date,
                                next_expected |->
                                    CalculateNextExpected(patterns[i].last_date,
                                                          Frequency(patterns[i]))])
                      ELSE r,
                      i + 1)
    IN  Loop(rc, 1)

-----------------------------------------------------------------------------
(* Seed data: stores a deployment can hold after some use of the CRUD routes *)

Tx(userId, date, description, amount, category, type) ==
    [id |-> 0, user_id |-> userId, date |-> date, description |-> description,
     amount |-> amount, category |-> category, type |-> type]

RECURSIVE InsertAll(_, _)
InsertAll(ts, rows) ==
    IF rows = <<>> THEN ts ELSE InsertAll(InsertTransaction(ts, Head(rows)), Tail(rows))

\* falling revenue, an overspent budget category, a subscription and one outlier
LedgerBusy ==
    InsertAll(<<>>, <<Tx("u1", 5, "Invoice", 4000, "Sales", "income"),
                      Tx("u1", 6, "Spotify", 100, "Software", "expense"),
                      Tx("u1", 35, "Invoice", 1000, "Sales", "income"),
                      Tx("u1", 36, "Spotify", 100, "Software", "expense"),
                      Tx("u1", 36, "Paper", 1200, "Office Supplies", "expense"),
                      Tx("u1", 37, "Spotify", 100, "Software", "expense"),
                      Tx("u1", 38, "Laptop", 2000, "Software", "expense"),
                      Tx("u2", 36, "Invoice", 9000, "Sales", "income")>>)

\* a healthy ledger: steady income, a subscription and its refunds
LedgerQuiet ==
    InsertAll(<<>>, <<Tx("u1", 5, "Invoice", 6000, "Sales", "income"),
                      Tx("u1", 35, "Invoice", 6000, "Sales", "income"),
                      Tx("u1", 36, "Spotify", 100, "Software", "expense"),
                      Tx("u1", 36, "Spotify", 100, "Software", "income"),
                      Tx("u1", 37, "Spotify", 100, "Software", "expense"),
                      Tx("u1", 37, "Spotify", 100, "Software", "income"),
                      Tx("u1", 37, "Desk", 400, "Office", "expense"),
                      Tx("u1", 38, "Spotify", 100, "Software", "income")>>)

Budget(id, userId, category, amount, startDate, endDate, threshold) ==
    [id |-> id, user_id |-> userId, category |-> category, amount |-> amount,
     start_date |-> startDate, end_date |-> endDate, alert_threshold |-> threshold]

BudgetsSeed ==
    <<Budget(1, "u1", "Office Supplies", 1000, 30, NoDate, 0),
      Budget(2, "u1", "Office", 500, 30, 59, 80)>>

Goal(id, userId, description, target, current, deadline, createdAt) ==
    [id |-> id, user_id |-> userId, description |-> description,
     target_amount |-> target, current_amount |-> current, deadline |-> deadline,
     status |-> "active", created_at |-> createdAt]

GoalsSeed ==
    <<Goal(1, "u1", "savings", 1000, 500, 60, 0),
      Goal(2, "u1", "revenue", 1000, 500, NoDate, 0),
      Goal(3, "u2", "profit", 1000, 1000, 70, 0)>>

\* what a client can post as a new transaction
NewTransactions(userId) ==
    {Tx(userId, today, "Paper", 600, "Office", "expense"),
     Tx(userId, today, "Spotify", 100, "Software", "expense"),
     Tx(userId, today, "Invoice", 5000, "Sales", "income")}

GoalAmounts == {1000}

Slots == {1}

-----------------------------------------------------------------------------
(* Bookkeeping of the model (not program state).                            *)
(*   det.monitored  owner of the last runAllMonitoring that completed with  *)
(*                  no transaction, budget, goal, alert or clock change     *)
(*                  during it or since                                      *)
(*   det.ran        owners for whom detectAnomalies completed since the     *)
(*                  transaction store last changed                          *)
(*   det.last       the operation that completed last, if it was a direct   *)
(*                  detection or progress request, and what it created      *)

NoOp ==
    [op |-> "none", user |-> "", second |-> FALSE,
     newAnomalies |-> 0, newAlerts |-> 0, newRecurring |-> 0]

DetInit == [monitored |-> "", ran |-> {}, last |-> NoOp]

MonIdle == [pc |-> "idle", user |-> "", created |-> 0, second |-> FALSE, clean |-> FALSE]

Disturb(m) == [s \in DOMAIN m |-> [m[s] EXCEPT !.clean = FALSE]]

\* no read request answered yet
NoOut == [op |-> "none", user |-> "", value |-> <<>>]

NoResult == [success |-> FALSE, message |-> "", error |-> "", transactionId |-> 0]

\* the turn in progress: where it stands, what the log and the ledger held when
\* it started (base, txBase), and what happened in it so far
ChatIdle ==
    [pc |-> "idle", svc |-> "", user |-> "", turn |-> 0, base |-> 0, txBase |-> 0,
     call |-> "", handlers |-> 0, modelCalls |-> 0, result |-> NoResult,
     threw |-> FALSE, uncaught |-> "", ignoredCalls |-> FALSE,
     failedCall |-> 0, err |-> "", reply |-> ""]

Init ==
    /\ today = DayPoint(0)
    /\ transactions \in {LedgerBusy, LedgerQuiet}
    /\ budgets \in {<<>>, BudgetsSeed}
    /\ goals \in {<<>>, GoalsSeed}
    /\ alerts = <<>>
    /\ anomalies = <<>>
    /\ recurring = <<>>
    /\ conversations = <<>>
    /\ notifications = <<>>
    /\ mon = [s \in Slots |-> MonIdle]
    /\ det = DetInit
    /\ chat = ChatIdle
    /\ forecasts = <<>>
    /\ out = NoOut
    /\ clock = 0

-----------------------------------------------------------------------------
(* Environment: the clock and the CRUD routes *)

Tick ==
    /\ \E i \in 0..(MaxDay - 1) : today = DayPoint(i) /\ today' = DayPoint(i + 1)
    /\ mon' = Disturb(mon)
    /\ det' = [det EXCEPT !.monitored = "", !.last = NoOp]
    /\ UNCHANGED <<clock, forecasts, out, transactions, budgets, goals, alerts, anomalies, recurring,
                   conversations, notifications, chat>>

\* POST /api/transactions
AddTransaction ==
    /\ Len(transactions) < MaxTx
    /\ \E u \in Users : \E row \in NewTransactions(u) :
           transactions' = InsertTransaction(transactions, row)
    /\ mon' = Disturb(mon)
    /\ det' = DetInit
    /\ UNCHANGED <<clock, forecasts, out, today, budgets, goals, alerts, anomalies, recurring,
                   conversations, notifications, chat>>

Acked == Len(SelectSeq(alerts, LAMBDA a : a.read = 1))
            + Len(SelectSeq(alerts, LAMBDA a : a.dismissed = 1))

\* POST /api/alerts/:id/read -> markAlertAsRead
MarkAlertAsRead ==
    /\ Acked < MaxAcks
    /\ \E i \in 1..Len(alerts) :
           /\ alerts[i].read = 0
           /\ alerts' = [alerts EXCEPT ![i].read = 1]
    /\ mon' = Disturb(mon)
    /\ det' = [det EXCEPT !.monitored = "", !.last = NoOp]
    /\ UNCHANGED <<clock, forecasts, out, today, transactions, budgets, goals, anomalies, recurring,
                   conversations, notifications, chat>>

\* POST /api/alerts/:id/dismiss -> dismissAlert
DismissAlert ==
    /\ Acked < MaxAcks
    /\ \E i \in 1..Len(alerts) :
           /\ alerts[i].dismissed = 0
           /\ alerts' = [alerts EXCEPT ![i].dismissed = 1]
    /\ mon' = Disturb(mon)
    /\ det' = [det EXCEPT !.monitored = "", !.last = NoOp]
    /\ UNCHANGED <<clock, forecasts, out, today, transactions, budgets, goals, anomalies, recurring,
                   conversations, notifications, chat>>

\* POST /api/alerts/anomalies/:id/review -> markAnomalyAsReviewed; it writes the
\* anomalies table only
MarkAnomalyAsReviewed ==
    /\ Len(SelectSeq(anomalies, LAMBDA a : a.reviewed = 1)) < MaxReviews
    /\ \E i \in 1..Len(anomalies) : \E isFalsePositive \in {0, 1} :
           /\ anomalies[i].reviewed = 0
           /\ anomalies' = [anomalies EXCEPT ![i].reviewed = 1,
                                             ![i].false_positive = isFalsePositive]
    /\ det' = [det EXCEPT !.last = NoOp]
    /\ UNCHANGED <<clock, forecasts, out, today, transactions, budgets, goals, alerts, recurring,
                   conversations, notifications, mon, chat>>

\* goalRepository.updateGoalProgress
UpdateGoalProgress ==
    /\ \E i \in 1..Len(goals) : \E amt \in GoalAmounts :
           /\ goals[i].current_amount # amt
           /\ goals' = [goals EXCEPT ![i].current_amount = amt]
    /\ mon' = Disturb(mon)
    /\ det' = [det EXCEPT !.monitored = "", !.last = NoOp]
    /\ UNCHANGED <<clock, forecasts, out, today, transactions, budgets, alerts, anomalies, recurring,
                   conversations, notifications, chat>>

-----------------------------------------------------------------------------
(* runAllMonitoring: five awaited steps; other requests run between them *)

MonStart(s) ==
    /\ mon[s].pc \in {"idle", "done"}
    /\ \E u \in Users :
           mon' = [mon EXCEPT ![s] = [pc |-> "cash", user |-> u, created |-> 0,
                                      second |-> (det.monitored = u),
                                      clean |-> TRUE]]
    /\ UNCHANGED <<clock, forecasts, out, today, transactions, budgets, goals, alerts, anomalies, recurring,
                   conversations, notifications, det, chat>>

\* one monitor of slot s ran and left the alerts table al
MonAdvance(s, al, next) ==
    /\ Len(al) <= MaxAlerts
    /\ alerts' = al
    /\ mon' = [t \in DOMAIN mon |->
                  IF t = s
                  THEN [mon[s] EXCEPT !.pc = next,
                                      !.created = @ + Len(al) - Len(alerts)]
                  ELSE [mon[t] EXCEPT !.clean = FALSE]]

MonCash(s) ==
    /\ mon[s].pc = "cash"
    /\ MonAdvance(s, MonitorCashBalance(alerts, mon[s].user), "budgets")
    /\ UNCHANGED <<clock, forecasts, out, today, transactions, budgets, goals, anomalies, recurring,
                   conversations, notifications, det, chat>>

MonBudgets(s) ==
    /\ mon[s].pc = "budgets"
    /\ MonAdvance(s, MonitorBudgets(alerts, mon[s].user), "goals")
    /\ UNCHANGED <<clock, forecasts, out, today, transactions, budgets, goals, anomalies, recurring,
                   conversations, notifications, det, chat>>

MonGoals(s) ==
    /\ mon[s].pc = "goals"
    /\ MonAdvance(s, MonitorGoals(alerts, mon[s].user), "trends")
    /\ UNCHANGED <<clock, forecasts, out, today, transactions, budgets, goals, anomalies, recurring,
                   conversations, notifications, det, chat>>

MonTrends(s) ==
    /\ mon[s].pc = "trends"
    /\ MonAdvance(s, MonitorTrends(alerts, mon[s].user), "anomalies")
    /\ UNCHANGED <<clock, forecasts, out, today, transactions, budgets, goals, anomalies, recurring,
                   conversations, notifications, det, chat>>

MonAnomalies(s) ==
    /\ mon[s].pc = "anomalies"
    /\ LET r == DetectAnomalies(anomalies, alerts, mon[s].user)
       IN  /\ Len(r.anomalies) <= MaxAnomalies
           /\ anomalies' = r.anomalies
           /\ MonAdvance(s, r.alerts, "done")
    /\ det' = [monitored |-> IF mon[s].clean THEN mon[s].user ELSE "",
               ran |-> det.ran \cup {mon[s].user},
               last |-> NoOp]
    /\ UNCHANGED <<clock, forecasts, out, today, transactions, budgets, goals, recurring,
                   conversations, notifications, chat>>

RunAllMonitoring ==
    \E s \in Slots :
        MonStart(s) \/ MonCash(s) \/ MonBudgets(s) \/ MonGoals(s) \/ MonTrends(s)
            \/ MonAnomalies(s)

-----------------------------------------------------------------------------
(* Direct requests: POST /analytics/detect-anomalies/:userId,                  *)
(* GET /analytics/recurring/:userId, GET /alerts/:userId/goals.  Each handler *)
(* runs without yielding.                                                     *)

DetectAnomaliesCall ==
    \E u \in Users :
        LET r == DetectAnomalies(anomalies, alerts, u)
        IN  /\ Len(r.anomalies) <= MaxAnomalies
            /\ Len(r.alerts) <= MaxAlerts
            /\ anomalies' = r.anomalies
            /\ alerts' = r.alerts
            /\ mon' = IF r.alerts = alerts THEN mon ELSE Disturb(mon)
            /\ det' = [monitored |-> IF r.alerts = alerts THEN det.monitored ELSE "",
                       ran |-> det.ran \cup {u},
                       last |-> [op |-> "anomalies", user |-> u,
                                 second |-> u \in det.ran,
                                 newAnomalies |-> Len(r.anomalies) - Len(anomalies),
                                 newAlerts |-> Len(r.alerts) - Len(alerts),
                                 newRecurring |-> 0]]
            /\ UNCHANGED <<clock, forecasts, out, today, transactions, budgets, goals, recurring,
                           conversations, notifications, chat>>

DetectRecurringPatternsCall ==
    \E u \in Users :
        LET r == DetectRecurringPatterns(recurring, u)
        IN  /\ Len(r) <= MaxRecurring
            /\ recurring' = r
            /\ det' = [det EXCEPT !.last = [op |-> "recurring", user |-> u,
                                            second |-> FALSE,
                                            newAnomalies |-> 0, newAlerts |-> 0,
                                            newRecurring |-> Len(r) - Len(recurring)]]
            /\ UNCHANGED <<clock, forecasts, out, today, transactions, budgets, goals, alerts, anomalies,
                           conversations, notifications, mon, chat>>

\* the progress check: getGoalProgress reads the goals and writes nothing
GetGoalProgressCall ==
    \E u \in Users :
        /\ det' = [det EXCEPT !.last = [NoOp EXCEPT !.op = "progress", !.user = u]]
        /\ UNCHANGED <<clock, forecasts, out, today, transactions, budgets, goals, alerts, anomalies,
                       recurring, conversations, notifications, mon, chat>>

\* goalRepository.checkGoalCompletion, a repository operation of its own: no
\* progress check and no route calls it
CheckGoalCompletionCall ==
    \E u \in Users :
        /\ goals' = CheckGoalCompletion(goals, u)
        /\ goals' # goals
        /\ mon' = Disturb(mon)
        /\ det' = [det EXCEPT !.monitored = "", !.last = NoOp]
        /\ UNCHANGED <<clock, forecasts, out, today, transactions, budgets, alerts, anomalies, recurring,
                       conversations, notifications, chat>>

-----------------------------------------------------------------------------
(* GeminiAccountantService.chat: the tool-calling turn.  The repository holds *)
(* two versions of the service: "current" (ten tools, the user message saved  *)
(* before the first dispatch) and "legacy" (two tools).  A deployment runs    *)
(* one of them.                                                               *)

Services == {"current", "legacy"}

Declared(svc) ==
    IF svc = "current"
    THEN {"addTransaction", "queryTransactions", "getBalanceTrends", "analyzeBudget",
          "getAnomalies", "getRecurringItems", "forecastCashFlow", "analyzeTrends",
          "bulkCategorize", "generateReport"}
    ELSE {"addTransaction", "generateReport"}

\* handlers that read a property of call.args
ReadsArgs ==
    {"addTransaction", "queryTransactions", "getBalanceTrends", "forecastCashFlow",
     "analyzeTrends", "bulkCategorize", "generateReport"}

\* call.args as the model sent it; present = FALSE is a call without args
Args(present, description, amount, category, type, vendor, newCategory) ==
    [present |-> present, description |-> description, amount |-> amount,
     category |-> category, type |-> type, vendor |-> vendor,
     newCategory |-> newCategory]

NoArgs == Args(FALSE, "", 0, "", "", "", "")
LunchArgs == Args(TRUE, "Lunch", 150, "Meals", "expense", "", "")
TransferArgs == Args(TRUE, "Lunch", 150, "Meals", "transfer", "", "")
CreditArgs == Args(TRUE, "Credit note", -150, "Meals", "expense", "", "")
RecatArgs == Args(TRUE, "", 0, "", "", "spotify", "Subscriptions")
ReportArgs == Args(TRUE, "", 0, "", "pdf", "", "")

FunctionCall(name, args) == [name |-> name, args |-> args]

\* the function calls a model response can carry: every declared tool and one
\* undeclared name, with and without args; optionally a second call
FirstCalls ==
    {FunctionCall("addTransaction", a) :
         a \in {LunchArgs, TransferArgs, CreditArgs, NoArgs}}
    \cup {FunctionCall("bulkCategorize", a) : a \in {RecatArgs, NoArgs}}
    \cup {FunctionCall("generateReport", a) : a \in {ReportArgs, NoArgs}}
    \cup {FunctionCall(n, NoArgs) :
              n \in (Declared("current") \cup {"deleteTransaction"})
                        \ {"addTransaction", "bulkCategorize", "generateReport"}}

FunctionCallLists ==
    {<<c>> : c \in FirstCalls}
    \cup {<<c, FunctionCall("addTransaction", LunchArgs)>> : c \in FirstCalls}

\* functionResult; the data payload of the read-only tools is not modelled
FunctionResult(success, message, error, transactionId) ==
    [success |-> success, message |-> message, error |-> error,
     transactionId |-> transactionId]

UnknownFunction == FunctionResult(FALSE, "", "Unknown function", 0)

ErrorResult(message) == FunctionResult(FALSE, "", message, 0)

\* SQLite LIKE folds the case of ASCII letters
UpperCase == "ABCDEFGHIJKLMNOPQRSTUVWXYZ"
LowerCase == "abcdefghijklmnopqrstuvwxyz"

\* the lower-case form of s from position i on
RECURSIVE LowerFrom(_, _)
LowerFrom(s, i) ==
    IF i > Len(s) THEN ""
    ELSE LET c == SubSeq(s, i, i)
             up == {k \in 1..Len(UpperCase) : SubSeq(UpperCase, k, k) = c}
         IN  (IF up = {} THEN c
              ELSE LET k == CHOOSE k \in up : TRUE IN SubSeq(LowerCase, k, k))
             \o LowerFrom(s, i + 1)

ToLower(s) == LowerFrom(s, 1)

\* s from position i on LIKE p from position j on, for lower-case s and p:
\* % stands for any run of characters, _ for any one character
RECURSIVE LikeMatch(_, _, _, _)
LikeMatch(s, p, i, j) ==
    IF j > Len(p) THEN i > Len(s)
    ELSE IF SubSeq(p, j, j) = "%"
    THEN \E k \in i..(Len(s) + 1) : LikeMatch(s, p, k, j + 1)
    ELSE /\ i <= Len(s)
         /\ SubSeq(p, j, j) \in {"_", SubSeq(s, i, i)}
         /\ LikeMatch(s, p, i + 1, j + 1)

\* description LIKE '%vendor%'
Like(description, vendor) ==
    LikeMatch(ToLower(description), "%" \o ToLower(vendor) \o "%", 1, 1)

\* transactionRepository.bulkUpdateCategory
BulkUpdateCategory(ts, userId, vendorName, newCategory) ==
    [i \in 1..Len(ts) |->
        IF ts[i].user_id = userId /\ Like(ts[i].description, vendorName)
        THEN [ts[i] EXCEPT !.category = newCategory]
        ELSE ts[i]]

Changes(ts, userId, vendorName) ==
    Len(SelectSeq(ts, LAMBDA t : t.user_id = userId /\ Like(t.description, vendorName)))

\* conversationRepository.saveMessage
SaveMessage(cv, userId, role, content) ==
    Append(cv, [user_id |-> userId, role |-> role, content |-> content,
                timestamp |-> clock])

\* notificationRepository.createNotification
CreateNotification(ns, userId, message) ==
    Append(ns, [id |-> Len(ns) + 1, user_id |-> userId, title |-> "New Transaction",
                message |-> message, type |-> "success"])

\* what the dispatch of one function call leaves: the three tables, the
\* functionResult, whether a handler ran and threw, and the message of an
\* exception that left the dispatch ("" when none did)
Outcome(ts, ns, cv, result, ran, threw, uncaught) ==
    [transactions |-> ts, notifications |-> ns, conversations |-> cv,
     result |-> result, ran |-> ran, threw |-> threw, uncaught |-> uncaught]

Caught(message) ==
    Outcome(transactions, notifications, conversations, ErrorResult(message),
            1, TRUE, "")

\* dbFails = n: the n-th database statement of the handler throws; 0: none does
Statements == 0..3

\* the addTransaction handler: the insert, the notification and (ten-tool
\* version) the 'Record added' message are in one try block, whose catch
\* replaces functionResult by the error
AddTransactionTool(svc, userId, args, dbFails) ==
    IF ~args.present
    THEN Caught("Cannot read properties of undefined (reading 'date')")
    ELSE IF dbFails = 1
    THEN Caught("database is locked")
    ELSE IF args.type \notin {"income", "expense"}
    THEN Caught("CHECK constraint failed: type IN ('income', 'expense')")
    ELSE LET ts == InsertTransaction(transactions,
                       Tx(userId, today, args.description, args.amount,
                          args.category, args.type))
             ns == CreateNotification(notifications, userId,
                       "Added " \o args.type \o ": " \o args.description
                           \o " - $" \o ToString(args.amount))
             cv == IF svc = "current"
                   THEN SaveMessage(conversations, userId, "model",
                                    "Record added: " \o args.description)
                   ELSE conversations
         IN  IF dbFails = 2
             THEN Outcome(ts, notifications, conversations,
                          ErrorResult("database is locked"), 1, TRUE, "")
             ELSE IF dbFails = 3 /\ svc = "current"
             THEN Outcome(ts, ns, conversations,
                          ErrorResult("database is locked"), 1, TRUE, "")
             ELSE Outcome(ts, ns, cv,
                          FunctionResult(TRUE, "Transaction added successfully", "",
                                         Len(ts)),
                          1, FALSE, "")

\* the bulkCategorize handler
BulkCategorizeTool(userId, args, dbFails) ==
    IF ~args.present
    THEN Caught("Cannot read properties of undefined (reading 'vendor')")
    ELSE IF dbFails = 1
    THEN Caught("database is locked")
    ELSE Outcome(BulkUpdateCategory(transactions, userId, args.vendor, args.newCategory),
                 notifications, conversations,
                 FunctionResult(TRUE,
                     "Successfully updated "
                         \o ToString(Changes(transactions, userId, args.vendor))
                         \o " transactions matching \"" \o args.vendor
                         \o "\" to category \"" \o args.newCategory \o "\".",
                     "", 0),
                 1, FALSE, "")

\* the generateReport handler: no try / catch around the read of call.args.type
GenerateReportTool(args) ==
    IF ~args.present
    THEN Outcome(transactions, notifications, conversations, UnknownFunction,
                 1, TRUE, "Cannot read properties of undefined (reading 'type')")
    ELSE Outcome(transactions, notifications, conversations,
                 FunctionResult(TRUE, "Report of type " \o args.type \o " generated.",
                                "", 0),
                 1, FALSE, "")

\* a handler of that group that also files what it looked up as a transaction
ReadOnlyToolRecording(name, args, dbFails) ==
    IF dbFails = 1
    THEN Caught("database is locked")
    ELSE IF ~args.present /\ name \in ReadsArgs
    THEN Caught("Cannot read properties of undefined")
    ELSE Outcome(InsertTransaction(transactions,
                     Tx(chat.user, today, name, 1, "General", "expense")),
                 notifications, conversations,
                 FunctionResult(TRUE, "", "", 0), 1, FALSE, "")

\* the read-only handlers (queryTransactions, getBalanceTrends, analyzeBudget,
\* getAnomalies, getRecurringItems, forecastCashFlow, analyzeTrends)
ReadOnlyTool(name, args, dbFails) ==
    IF dbFails = 1
    THEN Caught("database is locked")
    ELSE IF ~args.present /\ name \in ReadsArgs
    THEN Caught("Cannot read properties of undefined")
    ELSE Outcome(transactions, notifications, conversations,
                 FunctionResult(TRUE, "", "", 0), 1, FALSE, "")

\* the chain with a branch for every tool of the ten-tool version, whichever
\* version is deployed
DispatchAnyTool(svc, userId, call, dbFails) ==
    IF call.name \notin Declared("current")
    THEN Outcome(transactions, notifications, conversations, UnknownFunction,
                 0, FALSE, "")
    ELSE CASE call.name = "addTransaction" ->
                  AddTransactionTool(svc, userId, call.args, dbFails)
           [] call.name = "bulkCategorize" ->
                  BulkCategorizeTool(userId, call.args, dbFails)
           [] call.name = "generateReport" ->
                  GenerateReportTool(call.args)
           [] OTHER ->
                  ReadOnlyTool(call.name, call.args, dbFails)

\* the if / else-if chain on call.name; functionResult starts as Unknown function
Dispatch(svc, userId, call, dbFails) ==
    IF call.name \notin Declared(svc)
    THEN Outcome(transactions, notifications, conversations, UnknownFunction,
                 0, FALSE, "")
    ELSE CASE call.name = "addTransaction" ->
                  AddTransactionTool(svc, userId, call.args, dbFails)
           [] call.name = "bulkCategorize" ->
                  BulkCategorizeTool(userId, call.args, dbFails)
           [] call.name = "generateReport" ->
                  GenerateReportTool(call.args)
           [] OTHER ->
                  ReadOnlyTool(call.name, call.args, dbFails)

\* error.message of a failed model call
ErrorMessages ==
    {"[403 Forbidden] Method doesn't allow unregistered callers",
     "API key not valid: identity unknown",
     "fetch failed",
     "fetch failed: 403",
     "Identity check timed out",
     "[429 Too Many Requests] quota exceeded",
     ""}

\* the texts chat returns from its catch block (the leading mark and the API
\* key length hint are left out)
IdentityError ==
    "AI Identity Error: Your API Key is missing or unregistered in the live settings."

UnreachableError == "Connection Error: Gemini API is unreachable (fetch failed)."

ConnectionError(message) ==
    "Connection Error: " \o (IF message = "" THEN "Unknown error" ELSE message)
        \o ". (Hint: Check your API Key)"

\* the catch block with the two tests in the opposite order
DiagnosticFetchFirst(message) ==
    IF Includes(message, "fetch failed") THEN UnreachableError
    ELSE IF Includes(message, "403") \/ Includes(message, "identity") THEN IdentityError
    ELSE ConnectionError(message)

\* the catch block of chat
Diagnostic(message) ==
    IF Includes(message, "403") \/ Includes(message, "identity") THEN IdentityError
    ELSE IF Includes(message, "fetch failed") THEN UnreachableError
    ELSE ConnectionError(message)

ModelTexts == {"Here is your summary.", "Done.  Anything else?", ""}

UserMessage == "I spent 150 on lunch"

\* chat() up to the first await: (current) save the user message, send it
ChatDispatch ==
    /\ chat.pc \in {"idle", "done"}
    /\ chat.turn < MaxTurns
    /\ \E u \in Users : \E svc \in Services :
           /\ chat.svc \in {"", svc}
           /\ conversations' = IF svc = "current"
                               THEN SaveMessage(conversations, u, "user", UserMessage)
                               ELSE conversations
           /\ chat' = [ChatIdle EXCEPT !.pc = "model1", !.svc = svc, !.user = u,
                                       !.turn = chat.turn + 1,
                                       !.base = Len(conversations),
                                       !.txBase = Len(transactions),
                                       !.modelCalls = 1]
    /\ UNCHANGED <<clock, forecasts, out, today, transactions, budgets, goals, alerts, anomalies, recurring,
                   notifications, mon, det>>

\* a sendMessage call rejects: the catch block returns a diagnostic
ChatModelFails ==
    /\ chat.pc \in {"model1", "model2"}
    /\ \E e \in ErrorMessages :
           chat' = [chat EXCEPT !.pc = "done",
                                !.failedCall = IF chat.pc = "model1" THEN 1 ELSE 2,
                                !.err = e,
                                !.reply = Diagnostic(e)]
    /\ UNCHANGED <<clock, forecasts, out, today, transactions, budgets, goals, alerts, anomalies, recurring,
                   conversations, notifications, mon, det>>

\* the first response carries no function call: its text is saved and returned
ChatModelText ==
    /\ chat.pc = "model1"
    /\ \E text \in ModelTexts :
           /\ conversations' =
                  IF chat.svc = "current"
                  THEN SaveMessage(conversations, chat.user, "model", text)
                  ELSE SaveMessage(SaveMessage(conversations, chat.user, "user",
                                               UserMessage),
                                   chat.user, "model", text)
           /\ chat' = [chat EXCEPT !.pc = "done", !.reply = text]
    /\ UNCHANGED <<clock, forecasts, out, today, transactions, budgets, goals, alerts, anomalies, recurring,
                   notifications, mon, det>>

\* the first response carries function calls: the first one is dispatched and,
\* unless an exception left the dispatch, its result is sent back
ChatFunctionCall ==
    /\ chat.pc = "model1"
    /\ \E calls \in FunctionCallLists : \E dbFails \in Statements :
           LET call == calls[1]
               o == Dispatch(chat.svc, chat.user, call, dbFails)
           IN  /\ transactions' = o.transactions
               /\ notifications' = o.notifications
               /\ conversations' = o.conversations
               /\ chat' = IF o.uncaught # ""
                          THEN [chat EXCEPT !.pc = "done", !.call = call.name,
                                            !.handlers = o.ran, !.threw = o.threw,
                                            !.uncaught = o.uncaught,
                                            !.reply = Diagnostic(o.uncaught)]
                          ELSE [chat EXCEPT !.pc = "model2", !.call = call.name,
                                            !.handlers = o.ran, !.threw = o.threw,
                                            !.result = o.result,
                                            !.modelCalls = 2]
               /\ mon' = IF o.transactions = transactions THEN mon ELSE Disturb(mon)
               /\ det' = IF o.transactions = transactions THEN det ELSE DetInit
    /\ UNCHANGED <<clock, forecasts, out, today, budgets, goals, alerts, anomalies, recurring>>

\* the second response: its text is returned (current: and saved); function
\* calls it may carry are not looked at
ChatFinalText ==
    /\ chat.pc = "model2"
    /\ \E text \in ModelTexts : \E moreCalls \in BOOLEAN :
           /\ conversations' = IF chat.svc = "current"
                               THEN SaveMessage(conversations, chat.user, "model", text)
                               ELSE conversations
           /\ chat' = [chat EXCEPT !.pc = "done", !.reply = text,
                                   !.ignoredCalls = moreCalls]
    /\ UNCHANGED <<clock, forecasts, out, today, transactions, budgets, goals, alerts, anomalies, recurring,
                   notifications, mon, det>>

-----------------------------------------------------------------------------
(* FinancialIntelligenceService.forecastCashFlow.  The projected amounts are  *)
(* JavaScript numbers; they are exact rationals <<numerator, denominator>>    *)
(* here, with a positive denominator.  A confidence is kept in hundredths.    *)
(* The assumptions text of a stored row is left out.                          *)

RECURSIVE GCD(_, _)
GCD(a, b) == IF b = 0 THEN a ELSE GCD(b, a % b)

Rat(n, d) ==
    LET g == GCD(Abs(n), Abs(d))
        sign == IF d < 0 THEN -1 ELSE 1
    IN  <<sign * (n \div g), sign * (d \div g)>>

RatAdd(a, b) == Rat(a[1] * b[2] + b[1] * a[2], a[2] * b[2])
RatSub(a, b) == Rat(a[1] * b[2] - b[1] * a[2], a[2] * b[2])
RatMul(a, b) == Rat(a[1] * b[1], a[2] * b[2])

\* Math.round: the nearest integer, halves upwards
MathRound(a) == (2 * a[1] + a[2]) \div (2 * a[2])

\* the named column of the trend rows, newest month first
Column(trends, metric) ==
    [k \in 1..Len(trends) |-> IF metric = "income" THEN trends[k].income
                              ELSE trends[k].expenses]

\* calculateGrowthRate: (last - first) / first per month step, 0 when the
\* oldest value is 0
CalculateGrowthRate(values) ==
    IF Len(values) < 2 THEN <<0, 1>>
    ELSE LET first == values[Len(values)]
             last == values[1]
         IN  IF first = 0 THEN <<0, 1>>
             ELSE Rat(last - first, first * (Len(values) - 1))

\* Math.max(0.5, 0.9 - (i * 0.1)); for i = 1, 2, 3 the doubles the expression
\* yields are the doubles of 0.8, 0.7 and 0.6
ForecastConfidenceNoFloor(i) == 90 - 10 * i

ForecastConfidence(i) == IF 90 - 10 * i > 50 THEN 90 - 10 * i ELSE 50

\* the loop of forecastCashFlow: for each month i the projected income
\* avgIncome * (1 + incomeGrowth)^i, the projected expenses likewise, and the
\* running balance (each power is the previous one times the growth factor)
RECURSIVE ProjectionLoop(_, _, _, _, _, _)
ProjectionLoop(profit, avgIncome, avgExpenses, incomeGrowth, expenseGrowth, months) ==
    IF months = 0 THEN <<>>
    ELSE LET before == ProjectionLoop(profit, avgIncome, avgExpenses,
                                      incomeGrowth, expenseGrowth, months - 1)
             last == IF months = 1
                     THEN [income |-> avgIncome, expenses |-> avgExpenses,
                           balance |-> <<profit, 1>>]
                     ELSE before[months - 1]
             income == RatMul(last.income, RatAdd(<<1, 1>>, incomeGrowth))
             expenses == RatMul(last.expenses, RatAdd(<<1, 1>>, expenseGrowth))
         IN  Append(before,
                    [income |-> income, expenses |-> expenses,
                     balance |-> RatAdd(last.balance, RatSub(income, expenses))])

\* the body of forecastCashFlow once the trend rows are known to suffice: the
\* projections returned and the rows saved, in loop order
Project(userId, trends, months) ==
    LET loop == ProjectionLoop(GetFinancialSummary(userId).profit,
                               Rat(SumSeq(Column(trends, "income")), Len(trends)),
                               Rat(SumSeq(Column(trends, "expenses")), Len(trends)),
                               CalculateGrowthRate(Column(trends, "income")),
                               CalculateGrowthRate(Column(trends, "expenses")),
                               months)
    IN  [projections |->
             [i \in 1..months |->
                 [month |-> MonthOf(today) + i,
                  projected_income |-> MathRound(loop[i].income),
                  projected_expenses |-> MathRound(loop[i].expenses),
                  projected_balance |-> MathRound(loop[i].balance),
                  confidence |-> ForecastConfidence(i)]],
         rows |->
             [i \in 1..months |->
                 [user_id |-> userId,
                  forecast_date |-> MonthOf(today) + i,
                  projected_income |-> loop[i].income,
                  projected_expenses |-> loop[i].expenses,
                  projected_balance |-> loop[i].balance,
                  confidence_level |-> ForecastConfidence(i)]]]

\* forecastCashFlow that projects from a single month of history
ForecastCashFlowFromOneMonth(userId, months) ==
    LET trends == GetMonthlyTrends(userId, 6)
    IN  IF Len(trends) < 1
        THEN [projections |-> <<>>, rows |-> <<>>]
        ELSE Project(userId, trends, months)

\* forecastCashFlow(userId, months)
ForecastCashFlow(userId, months) ==
    LET trends == GetMonthlyTrends(userId, 6)
    IN  IF Len(trends) < 2
        THEN [projections |-> <<>>, rows |-> <<>>]
        ELSE Project(userId, trends, months)

\* a save that replaces the owner's stored row of the same month
SaveForecastsReplacing(fs, rows) ==
    SelectSeq(fs, LAMBDA f : \A i \in 1..Len(rows) :
                                 ~(f.user_id = rows[i].user_id
                                   /\ f.forecast_date = rows[i].forecast_date))
    \o rows

\* analyticsRepository.saveForecast, once per projected month
SaveForecasts(fs, rows) == fs \o rows

\* ledgers with two months of history (rising and falling income), with one
\* month, and with none for owner u2
LedgersTrend ==
    {InsertAll(<<>>, <<Tx("u1", 5, "Invoice", 100, "Sales", "income"),
                      Tx("u1", 6, "Rent", 50, "Office", "expense"),
                      Tx("u1", 35, "Invoice", 200, "Sales", "income"),
                      Tx("u1", 36, "Rent", 50, "Office", "expense")>>),
     InsertAll(<<>>, <<Tx("u1", 5, "Invoice", 200, "Sales", "income"),
                      Tx("u1", 6, "Rent", 40, "Office", "expense"),
                      Tx("u1", 35, "Invoice", 100, "Sales", "income"),
                      Tx("u1", 36, "Rent", 60, "Office", "expense")>>),
     InsertAll(<<>>, <<Tx("u1", 35, "Invoice", 100, "Sales", "income"),
                      Tx("u1", 36, "Rent", 60, "Office", "expense"),
                      Tx("u2", 5, "Invoice", 100, "Sales", "income"),
                      Tx("u2", 35, "Rent", 60, "Office", "expense")>>)}

\* GET /api/analytics/cash-flow/:userId?months=
ForecastCashFlowCall ==
    /\ \E u \in Users : \E months \in 1..MaxMonths :
           LET f == ForecastCashFlow(u, months)
           IN  /\ Len(forecasts) + Len(f.rows) <= MaxForecasts
               /\ forecasts' = SaveForecasts(forecasts, f.rows)
               /\ out' = [op |-> "forecast", user |-> u, months |-> months,
                          value |-> f.projections]
    /\ UNCHANGED <<clock, today, transactions, budgets, goals, alerts, anomalies, recurring,
                   conversations, notifications, mon, det, chat>>

-----------------------------------------------------------------------------
(* GeminiAccountantService.streamChat: chat, then the reply word by word *)

\* the words of s between any run of spaces
RECURSIVE SplitOnRuns(_, _)
SplitOnRuns(s, separator) ==
    LET at == {k \in 1..Len(s) : SubSeq(s, k, k) = separator}
    IN  IF at = {} THEN (IF s = "" THEN <<>> ELSE <<s>>)
        ELSE LET k == CHOOSE k \in at : \A j \in at : k <= j
                 rest == SplitOnRuns(SubSeq(s, k + 1, Len(s)), separator)
             IN  IF k = 1 THEN rest ELSE <<SubSeq(s, 1, k - 1)>> \o rest

\* String.prototype.split with a separator of one character
RECURSIVE Split(_, _)
Split(s, separator) ==
    LET at == {k \in 1..Len(s) : SubSeq(s, k, k) = separator}
    IN  IF at = {} THEN <<s>>
        ELSE LET k == CHOOSE k \in at : \A j \in at : k <= j
             IN  <<SubSeq(s, 1, k - 1)>> \o Split(SubSeq(s, k + 1, Len(s)), separator)

RECURSIVE Concat(_)
Concat(chunks) == IF chunks = <<>> THEN "" ELSE Head(chunks) \o Concat(Tail(chunks))

\* streamChat up to its await: this.chat(...) is called
StreamChatCall ==
    /\ chat.turn < MaxStreams
    /\ ChatDispatch

\* streamChat after chat has returned: the reply is split (before the first
\* chunk) and the next chunk is yielded
StreamYield ==
    /\ chat.pc = "done"
    /\ LET started == out.op = "stream" /\ out.turn = chat.turn
           words == IF started THEN out.words ELSE Split(chat.reply, " ")
           i == IF started THEN Len(out.chunks) ELSE 0
       IN  /\ i < Len(words)
           /\ out' = [op |-> "stream", turn |-> chat.turn, full |-> chat.reply,
                      words |-> words,
                      chunks |-> (IF started THEN out.chunks ELSE <<>>)
                                 \o <<IF i = 0 THEN words[1] ELSE " " \o words[i + 1]>>]
    /\ UNCHANGED <<clock, today, transactions, budgets, goals, alerts, anomalies,
                   recurring, conversations, notifications, mon, det, chat, forecasts>>

-----------------------------------------------------------------------------
(* ConversationRepository: the history reads and the clear *)

UserMessages(cv, userId) == SelectSeq(cv, LAMBDA m : m.user_id = userId)

\* the orders in which SELECT ... WHERE user_id = ? ORDER BY timestamp DESC can
\* deliver the owner's rows: the query leaves the order of rows with equal
\* timestamps open
TimestampDescending(rows) ==
    {p \in [1..Len(rows) -> 1..Len(rows)] :
        /\ \A i, j \in 1..Len(rows) : i # j => p[i] # p[j]
        /\ \A i, j \in 1..Len(rows) :
               i < j => rows[p[i]].timestamp >= rows[p[j]].timestamp}

\* the one order in which rows of equal timestamps come latest saved first
LatestSavedFirst(rows) ==
    {[i \in 1..Len(rows) |-> Len(rows) + 1 - i]}

\* getConversationHistory with the rows delivered latest saved first
GetConversationHistorySavedOrder(userId, limit) ==
    LET rows == UserMessages(conversations, userId)
        k == IF limit < Len(rows) THEN limit ELSE Len(rows)
    IN  {Reverse([i \in 1..k |-> rows[p[i]]]) : p \in LatestSavedFirst(rows)}

\* getConversationHistory(userId, limit): LIMIT rows of the descending order,
\* reversed; one result per order the query can deliver
GetConversationHistory(userId, limit) ==
    LET rows == UserMessages(conversations, userId)
        k == IF limit < Len(rows) THEN limit ELSE Len(rows)
    IN  {Reverse([i \in 1..k |-> rows[p[i]]]) : p \in TimestampDescending(rows)}

\* a clear that deletes every row
ClearConversationOfAll(cv, userId) == <<>>

\* clearConversation: DELETE FROM conversations WHERE user_id = ?
ClearConversation(cv, userId) == SelectSeq(cv, LAMBDA m : m.user_id # userId)

\* the messages saved in the history specification
Messages ==
    {[role |-> "user", content |-> "Hello"],
     [role |-> "model", content |-> "Hi there!"],
     [role |-> "user", content |-> "Thanks"]}

\* a second passes
SecondPasses ==
    /\ clock < MaxSeconds
    /\ clock' = clock + 1
    /\ UNCHANGED <<today, transactions, budgets, goals, alerts, anomalies, recurring,
                   conversations, notifications, mon, det, chat, forecasts, out>>

\* conversationRepository.saveMessage as chat calls it; a text is in the log
\* at most once, so that its rows can be told apart
SaveMessageCall ==
    /\ Len(conversations) < MaxMessages
    /\ \E u \in Users : \E m \in Messages :
           /\ \A i \in 1..Len(conversations) : conversations[i].content # m.content
           /\ conversations' = SaveMessage(conversations, u, m.role, m.content)
    /\ UNCHANGED <<clock, today, transactions, budgets, goals, alerts, anomalies,
                   recurring, notifications, mon, det, chat, forecasts, out>>

\* GET /api/ai/history/:userId (and the history read at the start of chat)
GetConversationHistoryCall ==
    /\ \E u \in Users : \E limit \in 1..MaxLimit :
           \E history \in GetConversationHistory(u, limit) :
               out' = [op |-> "history", user |-> u, limit |-> limit, value |-> history]
    /\ UNCHANGED <<clock, today, transactions, budgets, goals, alerts, anomalies,
                   recurring, conversations, notifications, mon, det, chat, forecasts>>

\* DELETE /api/ai/history/:userId, answered after the read-back of the history
ClearConversationCall ==
    /\ \E u \in Users :
           /\ conversations' = ClearConversation(conversations, u)
           /\ out' = [op |-> "clear", user |-> u, was |-> conversations]
    /\ UNCHANGED <<clock, today, transactions, budgets, goals, alerts, anomalies,
                   recurring, notifications, mon, det, chat, forecasts>>

-----------------------------------------------------------------------------
(* Reads of the transaction store *)

\* a group of four whose largest amount is exactly three times the mean, and
\* the same amounts as income, with one more small row
LedgerTie ==
    InsertAll(<<>>, <<Tx("u1", 35, "Spotify", 100, "Software", "expense"),
                      Tx("u1", 36, "Spotify", 100, "Software", "expense"),
                      Tx("u1", 37, "Spotify", 100, "Software", "expense"),
                      Tx("u1", 38, "Laptop", 900, "Software", "expense"),
                      Tx("u1", 35, "Licence", 100, "Software", "income"),
                      Tx("u1", 36, "Licence", 100, "Software", "income"),
                      Tx("u1", 37, "Licence", 100, "Software", "income"),
                      Tx("u1", 38, "Licence", 100, "Software", "income"),
                      Tx("u1", 38, "Resale", 900, "Software", "income")>>)

\* the getAnomalies tool: getAnomalousTransactions(userId) with the default
\* threshold
GetAnomalousTransactionsCall ==
    /\ \E u \in Users :
           out' = [op |-> "anomalous", user |-> u,
                   value |-> GetAnomalousTransactions(u, AnomalyThreshold)]
    /\ UNCHANGED <<clock, today, transactions, budgets, goals, alerts, anomalies, recurring,
                   conversations, notifications, mon, det, chat, forecasts>>

-----------------------------------------------------------------------------
(* Budget routes *)

\* alert_threshold as a client can post it, in percent (NULL, 0, 0.5, 0.9, 1.2)
BudgetThresholds == {NoThreshold, 0, 50, 90, 120}

BudgetCategories == {"Office", "Software"}

\* the reporting periods a client asks for: last month, this month
Windows == {<<0, 29>>, <<30, 59>>}

\* one month of spending in one category: 800, 950 or 1100 against a budget
\* of 1000
LedgersSpent ==
    {InsertAll(<<>>, <<Tx("u1", 35, "Desk", a, "Office", "expense"),
                      Tx("u1", 36, "Refund", 300, "Office", "income"),
                      Tx("u1", 36, "Spotify", 100, "Software", "expense"),
                      Tx("u2", 36, "Desk", 5000, "Office", "expense"),
                      Tx("u1", 5, "Desk", 700, "Office", "expense")>>)
         : a \in {800, 950, 1100}}

\* POST /api/budgets
CreateBudget ==
    /\ Len(budgets) < MaxBudgets
    /\ \E u \in Users : \E c \in BudgetCategories : \E th \in BudgetThresholds :
           budgets' = Append(budgets,
                             Budget(Len(budgets) + 1, u, c, 1000, 30, NoDate, th))
    /\ mon' = Disturb(mon)
    /\ det' = [det EXCEPT !.monitored = "", !.last = NoOp]
    /\ UNCHANGED <<clock, today, transactions, goals, alerts, anomalies, recurring,
                   conversations, notifications, chat, forecasts, out>>

\* GET /api/budgets/:userId/variance?startDate=&endDate=
GetBudgetVarianceCall ==
    /\ \E u \in Users : \E w \in Windows :
           out' = [op |-> "variance", user |-> u,
                   value |-> GetBudgetVariance(u, w[1], w[2])]
    /\ UNCHANGED <<clock, today, transactions, budgets, goals, alerts, anomalies, recurring,
                   conversations, notifications, mon, det, chat, forecasts>>

-----------------------------------------------------------------------------
(* Insight synthesizer *)

\* the expense rows of getSpendingPatterns: the owner's, dated within
\* [startDate, endDate]
SpendingRows(userId, startDate, endDate) ==
    SelectSeq(transactions,
              LAMBDA t : /\ t.user_id = userId
                         /\ t.type = "expense"
                         /\ t.date >= startDate
                         /\ t.date <= endDate)

\* getCategoryTrend: the first against the last monthly total of the category
\* over the trailing three months; fewer than two months is stable
GetCategoryTrend(userId, category) ==
    LET rows == SelectSeq(transactions,
                          LAMBDA t : /\ t.user_id = userId
                                     /\ t.category = category
                                     /\ t.type = "expense"
                                     /\ t.date >= today - 3 * DaysPerMonth)
        months == {MonthOf(rows[i].date) : i \in 1..Len(rows)}
        Total(m) == SumSeq(MapAmount(SelectSeq(rows, LAMBDA t : MonthOf(t.date) = m)))
        first == Total(CHOOSE m \in months : \A n \in months : m <= n)
        last == Total(CHOOSE m \in months : \A n \in months : n <= m)
    IN  IF Cardinality(months) < 2 THEN "stable"
        ELSE IF first = 0 THEN (IF last > 0 THEN "increasing" ELSE "stable")
        ELSE IF (last - first) * 100 > 10 * first THEN "increasing"
        ELSE IF (last - first) * 100 < -10 * first THEN "decreasing"
        ELSE "stable"

\* getSpendingPatterns: one pattern per category, ORDER BY total DESC; the
\* query leaves the order of categories with equal totals open, so the
\* operator has one sequence per order it can deliver.  highShare is
\* percentage > 25, with percentage = total / totalExpenses * 100.
GetSpendingPatterns(userId, startDate, endDate) ==
    LET rows == SpendingRows(userId, startDate, endDate)
        cats == {rows[i].category : i \in 1..Len(rows)}
        Total(c) == SumSeq(MapAmount(SelectSeq(rows, LAMBDA t : t.category = c)))
        totalExpenses == SumSeq(MapAmount(rows))
        Pattern(c) ==
            [category |-> c,
             total |-> Total(c),
             highShare |-> totalExpenses > 0 /\ Total(c) * 100 > 25 * totalExpenses,
             trend |-> GetCategoryTrend(userId, c)]
        n == Cardinality(cats)
    IN  {[i \in 1..n |-> Pattern(o[i])] :
            o \in {q \in [1..n -> cats] :
                      /\ \A i, j \in 1..n : i # j => q[i] # q[j]
                      /\ \A i, j \in 1..n : i < j => Total(q[i]) >= Total(q[j])}}

\* a FinancialInsight: its type, its category and the fixed words of its title
Insight(type, category, title) ==
    [type |-> type, category |-> category, title |-> title]

\* the body of the loop of analyzeSpending: the insights of one pattern
PatternInsights(p) ==
    (IF p.highShare
     THEN <<Insight("info", p.category, "is a share of total expenses")>> ELSE <<>>)
    \o (IF p.trend = "increasing"
        THEN <<Insight("warning", p.category, "costs are increasing")>> ELSE <<>>)
    \o (IF p.trend = "decreasing"
        THEN <<Insight("opportunity", p.category, "Great job reducing costs")>> ELSE <<>>)

\* for (const pattern of patterns): pattern by pattern
InsightsByPattern(patterns) ==
    LET RECURSIVE Of(_)
        Of(i) == IF i > Len(patterns) THEN <<>>
                 ELSE PatternInsights(patterns[i]) \o Of(i + 1)
    IN  Of(1)

\* analyzeSpending: the patterns from the first day of the month two months
\* back up to today
AnalyzeSpending(userId) ==
    {InsightsByPattern(ps) :
        ps \in GetSpendingPatterns(userId, (MonthOf(today) - 2) * DaysPerMonth, today)}

\* insights.slice(0, n)
Slice(s, n) == SubSeq(s, 1, IF Len(s) < n THEN Len(s) ELSE n)

\* generateInsights: the cash warning, the budgets that are over, the spending
\* insights, and of all these the first ten
GenerateInsights(userId) ==
    LET cash == IF GetFinancialSummary(userId).profit < LowReserves
                THEN <<Insight("warning", "Cash Flow", "Low cash reserves")>>
                ELSE <<>>
        over == SelectSeq(CheckBudgetAlerts(userId), LAMBDA v : v.status = "over")
        exceeded == [i \in 1..Len(over) |->
                        Insight("warning", over[i].budget.category, "budget exceeded")]
    IN  {Slice(cash \o exceeded \o spending, MaxInsights) :
            spending \in AnalyzeSpending(userId)}

\* spending that rises in the largest category while the second is steady,
\* with reserves below and above 10000
LedgersRising ==
    {InsertAll(<<>>, <<Tx("u1", 5, "Invoice", a, "Sales", "income"),
                      Tx("u1", 5, "Licence", 1000, "Software", "expense"),
                      Tx("u1", 6, "Desk", 1400, "Office", "expense"),
                      Tx("u1", 35, "Licence", 2000, "Software", "expense"),
                      Tx("u1", 36, "Desk", 1400, "Office", "expense")>>)
         : a \in {3000, 15799, 15800, 20000}}

\* three categories, each above a quarter of the spending and each with a
\* trend
LedgerThirds ==
    InsertAll(<<>>, <<Tx("u1", 5, "Invoice", 3000, "Sales", "income"),
                      Tx("u1", 5, "Licence", 1000, "Software", "expense"),
                      Tx("u1", 6, "Desk", 2000, "Office", "expense"),
                      Tx("u1", 7, "Paper", 1000, "Office Supplies", "expense"),
                      Tx("u1", 35, "Licence", 2500, "Software", "expense"),
                      Tx("u1", 36, "Desk", 1300, "Office", "expense"),
                      Tx("u1", 37, "Paper", 2100, "Office Supplies", "expense")>>)

\* one category at exactly a quarter of the spending, and falling
LedgerQuarter ==
    InsertAll(<<>>, <<Tx("u1", 5, "Invoice", 20000, "Sales", "income"),
                      Tx("u1", 5, "Desk", 2000, "Office", "expense"),
                      Tx("u1", 35, "Licence", 9000, "Software", "expense"),
                      Tx("u1", 36, "Desk", 1000, "Office", "expense")>>)

\* four budgets of the month, each one overspent by LedgerThirds
BudgetsOver ==
    <<Budget(1, "u1", "Office", 1000, 30, NoDate, NoThreshold),
      Budget(2, "u1", "Office", 1200, 30, NoDate, 90),
      Budget(3, "u1", "Software", 1000, 30, NoDate, NoThreshold),
      Budget(4, "u1", "Software", 2000, 30, NoDate, 50)>>

\* GET /api/analytics/insights/:userId
GenerateInsightsCall ==
    /\ \E u \in Users : \E v \in GenerateInsights(u) :
           out' = [op |-> "insights", user |-> u, value |-> v]
    /\ UNCHANGED <<clock, today, transactions, budgets, goals, alerts, anomalies, recurring,
                   conversations, notifications, mon, det, chat, forecasts>>

-----------------------------------------------------------------------------
(* Ingestion: the routes that write the transactions table.  The audit log  *)
(* the authenticated routes also write is not part of the model.            *)

\* the amounts a client, a shop or the model can send
Amounts == {-50, 0, 75}

\* rows whose amount came from a request of the model's runs
ClientRows == Len(SelectSeq(transactions, LAMBDA t : t.amount \in Amounts))

\* notificationRepository.createNotification with the caller's title and type
InsertNotification(ns, userId, title, message, type) ==
    Append(ns, [id |-> Len(ns) + 1, user_id |-> userId, title |-> title,
                message |-> message, type |-> type])

\* POST /api/transactions with the body as sent: the row is inserted as it is
\* (the CHECK on type is the only constraint on the values)
PostTransaction ==
    /\ ClientRows < MaxClientRows
    /\ \E u \in Users : \E amount \in Amounts : \E type \in {"income", "expense"} :
           /\ transactions' = InsertTransaction(transactions,
                                  Tx(u, today, "Paper", amount, "Office", type))
           /\ notifications' = InsertNotification(notifications, u, "New Transaction",
                                   "Added " \o type \o ": Paper - $" \o ToString(amount),
                                   "success")
    /\ mon' = Disturb(mon)
    /\ det' = DetInit
    /\ UNCHANGED <<clock, forecasts, out, today, budgets, goals, alerts, anomalies, recurring,
                   conversations, chat>>

\* PUT /api/transactions/:id: the owner's row takes the values of the body
PutTransaction ==
    /\ ClientRows < MaxClientRows
    /\ \E u \in Users : \E i \in 1..Len(transactions) : \E amount \in Amounts :
           /\ transactions[i].user_id = u
           /\ transactions' = [transactions EXCEPT ![i].amount = amount]
    /\ mon' = Disturb(mon)
    /\ det' = DetInit
    /\ UNCHANGED <<clock, forecasts, out, today, budgets, goals, alerts, anomalies, recurring,
                   conversations, notifications, chat>>

\* POST /api/webhooks/custom: 400 when amount is missing or 0 (!amount),
\* otherwise the row is inserted with parseFloat(amount)
CustomWebhook ==
    /\ ClientRows < MaxClientRows
    /\ \E u \in Users : \E hasAmount \in BOOLEAN : \E amount \in Amounts :
       \E type \in {"income", "expense", "refund"} :
           IF ~hasAmount \/ amount = 0
           THEN UNCHANGED <<transactions, notifications, mon, det>>
           ELSE LET kind == IF type = "expense" THEN "expense" ELSE "income"
                IN  /\ transactions' = InsertTransaction(transactions,
                                           Tx(u, today, "Order", amount, "General", kind))
                    /\ notifications' = InsertNotification(notifications, u,
                                            "External Transaction",
                                            "Received: Order - $" \o ToString(amount),
                                            "info")
                    /\ mon' = Disturb(mon)
                    /\ det' = DetInit
    /\ UNCHANGED <<clock, forecasts, out, today, budgets, goals, alerts, anomalies, recurring,
                   conversations, chat>>

-----------------------------------------------------------------------------
(* Goals near their deadline *)

\* goals behind schedule that are due yesterday, today, tomorrow and in twenty
\* days, and one goal without a deadline
GoalsDue ==
    <<Goal(1, "u1", "savings", 1000, 400, DayPoint(0) - 1, 0),
      Goal(2, "u1", "revenue", 1000, 400, DayPoint(0), 0),
      Goal(3, "u1", "reserve", 1000, 400, DayPoint(1), 0),
      Goal(4, "u2", "profit", 1000, 400, DayPoint(0) + 20, 0),
      Goal(5, "u2", "growth", 1000, 400, NoDate, 0)>>

-----------------------------------------------------------------------------
(* Ledgers with income and expenses in one category *)

\* an outlier among the Software expenses, and one large Software income
LedgerMixed ==
    InsertAll(<<>>, <<Tx("u1", 35, "Spotify", 100, "Software", "expense"),
                      Tx("u1", 36, "Spotify", 100, "Software", "expense"),
                      Tx("u1", 37, "Spotify", 100, "Software", "expense"),
                      Tx("u1", 38, "Laptop", 2000, "Software", "expense"),
                      Tx("u1", 38, "Licence", 5000, "Software", "income")>>)

-----------------------------------------------------------------------------
(* The queryTransactions tool.  The rows are listed in rowid order; the      *)
(* order of the query (date DESC, created_at DESC) is not part of the model. *)

\* call.args of queryTransactions; "" , NoDate and NoFilter stand for a
\* property the call does not carry
QueryArgs(category, startDate, endDate, minAmount, maxAmount, type) ==
    [category |-> category, startDate |-> startDate, endDate |-> endDate,
     minAmount |-> minAmount, maxAmount |-> maxAmount, type |-> type]

\* the filters the model can send
Queries ==
    {QueryArgs(c, s, e, lo, hi, t) :
        c \in {"", "Software"}, s \in {NoDate, 36}, e \in {NoDate, 37},
        lo \in {NoFilter, 0, 200}, hi \in {NoFilter, 0, 1000},
        t \in {"", "expense"}}

\* getTransactionsByDateRange
GetTransactionsByDateRange(userId, startDate, endDate) ==
    SelectSeq(transactions,
              LAMBDA t : t.user_id = userId /\ t.date >= startDate /\ t.date <= endDate)

\* getRecentTransactions(userId, limit)
GetRecentTransactions(userId, limit) == Slice(UserTransactions(userId), limit)

\* the queryTransactions handler: one of three queries, then the filters on
\* the amounts and the type that are truthy; data holds the first 30 rows
QueryTransactionsTool(userId, args) ==
    LET fetched ==
            IF args.startDate # NoDate \/ args.endDate # NoDate
            THEN GetTransactionsByDateRange(userId,
                     IF args.startDate # NoDate THEN args.startDate ELSE FirstDay,
                     IF args.endDate # NoDate THEN args.endDate ELSE LastDay)
            ELSE IF args.category # ""
            THEN GetTransactionsByCategory(userId, args.category)
            ELSE GetRecentTransactions(userId, RecentLimit)
        atLeast == IF args.minAmount \notin {NoFilter, 0}
                   THEN SelectSeq(fetched, LAMBDA t : t.amount >= args.minAmount)
                   ELSE fetched
        atMost == IF args.maxAmount \notin {NoFilter, 0}
                  THEN SelectSeq(atLeast, LAMBDA t : t.amount <= args.maxAmount)
                  ELSE atLeast
        ofType == IF args.type # ""
                  THEN SelectSeq(atMost, LAMBDA t : t.type = args.type)
                  ELSE atMost
    IN  [success |-> TRUE, count |-> Len(ofType), data |-> Slice(ofType, DataLimit)]

\* a conversation turn whose function call is queryTransactions: what the
\* handler hands back
QueryTransactionsCall ==
    /\ \E u \in Users : \E q \in Queries :
           out' = [op |-> "query", user |-> u, args |-> q,
                   value |-> QueryTransactionsTool(u, q)]
    /\ UNCHANGED <<clock, today, transactions, budgets, goals, alerts, anomalies, recurring,
                   conversations, notifications, mon, det, chat, forecasts>>

-----------------------------------------------------------------------------
(* The bulkCategorize tool *)

\* descriptions that name a vendor in several spellings, for two owners
LedgerVendors ==
    InsertAll(<<>>, <<Tx("u1", 35, "Spotify Pro", 100, "Software", "expense"),
                      Tx("u1", 36, "SPOTIFY", 150, "General", "expense"),
                      Tx("u1", 36, "Pay_Pal", 20, "General", "expense"),
                      Tx("u1", 37, "Pay-Pal", 20, "Fees", "expense"),
                      Tx("u1", 37, "Desk", 400, "Office", "expense"),
                      Tx("u2", 37, "Spotify", 100, "Software", "expense"),
                      Tx("u2", 38, "PayXPal", 30, "Fees", "expense"),
                      Tx("u2", 38, "Chairs", 250, "Office", "expense")>>)

\* call.args of bulkCategorize as the model can send it
BulkArgs ==
    {Args(TRUE, "", 0, "", "", v, "Subscriptions") : v \in {"spotify", "Pay_Pal", "Uber"}}
    \cup {Args(TRUE, "", 0, "", "", "Spotify", "Software"), NoArgs}

\* a conversation turn whose function call is bulkCategorize: what the handler
\* does to the table and what it hands back
BulkCategorizeCall ==
    /\ \E u \in Users : \E a \in BulkArgs : \E dbFails \in Statements :
           \E o \in {BulkCategorizeTool(u, a, dbFails)} :
               /\ transactions' = o.transactions
               /\ out' = [op |-> "bulk", user |-> u, args |-> a, value |-> o.result]
               /\ mon' = IF o.transactions = transactions THEN mon ELSE Disturb(mon)
               /\ det' = IF o.transactions = transactions THEN det ELSE DetInit
    /\ UNCHANGED <<clock, today, budgets, goals, alerts, anomalies, recurring,
                   conversations, notifications, chat, forecasts>>



-----------------------------------------------------------------------------
(* Two runAllMonitoring invocations in one process.  The monitors call the    *)
(* synchronous repositories and contain no await; an invocation yields only   *)
(* at the five awaits of runAllMonitoring, i.e. between two monitors.         *)

PairSlots == {1, 2}

RunAllMonitoringPair ==
    \E s \in PairSlots :
        MonStart(s) \/ MonCash(s) \/ MonBudgets(s) \/ MonGoals(s) \/ MonTrends(s)
            \/ MonAnomalies(s)

\* the alerts table one invocation for userId leaves when it starts from an
\* empty one and nothing else runs
RunAllMonitoringAlone(userId) ==
    LET a1 == MonitorCashBalance(<<>>, userId)
        a2 == MonitorBudgets(a1, userId)
        a3 == MonitorGoals(a2, userId)
        a4 == MonitorTrends(a3, userId)
    IN  DetectAnomalies(<<>>, a4, userId).alerts

-----------------------------------------------------------------------------
(* Specifications *)

\* monitoring while the ledger, the anomaly reviews and the clock change
NextMonitor ==
    \/ RunAllMonitoring
    \/ MarkAnomalyAsReviewed
    \/ AddTransaction
    \/ Tick

SpecMonitor == Init /\ [][NextMonitor]_vars

\* monitoring while the owner reads and dismisses alerts
NextAlerts ==
    \/ RunAllMonitoring
    \/ MarkAlertAsRead
    \/ DismissAlert

SpecAlerts == Init /\ [][NextAlerts]_vars

\* detection requests while transactions arrive and anomalies are reviewed
NextDetect ==
    \/ DetectAnomaliesCall
    \/ DetectRecurringPatternsCall
    \/ MarkAnomalyAsReviewed
    \/ AddTransaction

SpecDetect == Init /\ [][NextDetect]_vars

\* progress checks while goals are funded
NextGoals ==
    \/ GetGoalProgressCall
    \/ CheckGoalCompletionCall
    \/ RunAllMonitoring
    \/ UpdateGoalProgress

SpecGoals == Init /\ [][NextGoals]_vars

\* conversation turns, one at a time
NextChat ==
    \/ ChatDispatch
    \/ ChatModelFails
    \/ ChatModelText
    \/ ChatFunctionCall
    \/ ChatFinalText

\* the turns do not read budgets or goals; they start from the quiet ledger
InitChat ==
    /\ Init
    /\ transactions = LedgerQuiet
    /\ budgets = <<>>
    /\ goals = <<>>

SpecChat == InitChat /\ [][NextChat]_vars

\* the state after construction with the stores of a deployment in use
InitWith(ts, bs, gs) ==
    /\ today = DayPoint(0)
    /\ transactions = ts
    /\ budgets = bs
    /\ goals = gs
    /\ alerts = <<>>
    /\ anomalies = <<>>
    /\ recurring = <<>>
    /\ conversations = <<>>
    /\ notifications = <<>>
    /\ mon = [s \in Slots |-> MonIdle]
    /\ det = DetInit
    /\ chat = ChatIdle
    /\ forecasts = <<>>
    /\ out = NoOut
    /\ clock = 0

\* variance reports while budgets are created and the month turns
InitVariance == \E ts \in LedgersSpent : InitWith(ts, <<>>, <<>>)

NextVariance ==
    \/ CreateBudget
    \/ GetBudgetVarianceCall
    \/ Tick

SpecVariance == InitVariance /\ [][NextVariance]_vars

\* forecast requests as the days pass
InitForecast == \E ts \in LedgersTrend : InitWith(ts, <<>>, <<>>)

NextForecast ==
    \/ ForecastCashFlowCall
    \/ Tick

SpecForecast == InitForecast /\ [][NextForecast]_vars

\* reads of the anomalous transactions while transactions arrive
InitAnomalous ==
    \E ts \in {LedgerBusy, LedgerQuiet} \cup {SubSeq(LedgerTie, 1, n) : n \in 4..Len(LedgerTie)} :
        InitWith(ts, <<>>, <<>>)

NextAnomalous ==
    \/ GetAnomalousTransactionsCall
    \/ AddTransaction

SpecAnomalous == InitAnomalous /\ [][NextAnomalous]_vars

\* the conversation log: saves, reads and clears as the seconds pass
NextHistory ==
    \/ SaveMessageCall
    \/ GetConversationHistoryCall
    \/ ClearConversationCall
    \/ SecondPasses

SpecHistory == InitWith(<<>>, <<>>, <<>>) /\ [][NextHistory]_vars

\* streamed conversation turns
NextStream ==
    \/ StreamChatCall
    \/ ChatModelFails
    \/ ChatModelText
    \/ ChatFunctionCall
    \/ ChatFinalText
    \/ StreamYield

SpecStream == InitChat /\ [][NextStream]_vars

\* insight requests while budgets are created and the days pass
InitInsights ==
    \/ \E ts \in LedgersRising \cup {LedgerQuarter, LedgerThirds} : InitWith(ts, <<>>, <<>>)
    \/ InitWith(LedgerThirds, BudgetsOver, <<>>)

NextInsights ==
    \/ GenerateInsightsCall
    \/ CreateBudget
    \/ Tick

SpecInsights == InitInsights /\ [][NextInsights]_vars

\* the writers of the transactions table: the authenticated routes, the custom
\* webhook and the conversation turns (sent through the streaming route)
InitIngest == InitWith(SubSeq(LedgerQuiet, 1, 3), <<>>, <<>>)

NextIngest ==
    \/ PostTransaction
    \/ PutTransaction
    \/ CustomWebhook
    \/ StreamChatCall
    \/ ChatModelFails
    \/ ChatModelText
    \/ ChatFunctionCall
    \/ ChatFinalText

SpecIngest == InitIngest /\ [][NextIngest]_vars

\* monitoring while goals come due and are funded
InitAtRisk == InitWith(LedgerQuiet, <<>>, GoalsDue)

NextAtRisk ==
    \/ RunAllMonitoring
    \/ UpdateGoalProgress
    \/ Tick

SpecAtRisk == InitAtRisk /\ [][NextAtRisk]_vars

\* detection over ledgers with one-sided and with mixed categories
InitSeverity == \E ts \in {LedgerBusy, LedgerTie, LedgerMixed} : InitWith(ts, <<>>, <<>>)

NextSeverity ==
    \/ DetectAnomaliesCall
    \/ MarkAnomalyAsReviewed
    \/ AddTransaction

SpecSeverity == InitSeverity /\ [][NextSeverity]_vars

\* queries while transactions arrive
InitQuery == \E ts \in {LedgerBusy, LedgerQuiet} : InitWith(ts, <<>>, <<>>)

NextQuery ==
    \/ QueryTransactionsCall
    \/ AddTransaction

SpecQuery == InitQuery /\ [][NextQuery]_vars

\* bulk recategorisation while transactions arrive
InitBulk == InitWith(LedgerVendors, <<>>, <<>>)

NextBulk ==
    \/ BulkCategorizeCall
    \/ AddTransaction

SpecBulk == InitBulk /\ [][NextBulk]_vars



\* two invocations interleaving at their awaits, on one day
InitPair ==
    /\ today = DayPoint(0)
    /\ transactions \in {LedgerBusy, LedgerQuiet}
    /\ budgets \in {<<>>, BudgetsSeed}
    /\ goals \in {<<>>, GoalsSeed}
    /\ alerts = <<>>
    /\ anomalies = <<>>
    /\ recurring = <<>>
    /\ conversations = <<>>
    /\ notifications = <<>>
    /\ mon = [s \in PairSlots |-> MonIdle]
    /\ det = DetInit
    /\ chat = ChatIdle
    /\ forecasts = <<>>
    /\ out = NoOut
    /\ clock = 0

NextPair == RunAllMonitoringPair

SpecPair == InitPair /\ [][NextPair]_vars

-----------------------------------------------------------------------------
(* Properties *)

\* C1: a runAllMonitoring invocation that follows a completed invocation for
\* the same owner on the same day, with no transaction, budget, goal or alert
\* change between or during the two, creates no alert of any type.
C1_SecondRunCreatesNothing ==
    \A s \in Slots : (mon[s].second /\ mon[s].clean) => mon[s].created = 0

\* the discriminator of an alert row: the category of a budget_overrun alert,
\* the goal id of a goal_progress alert, none for low_cash
SameDiscriminator(a, b) ==
    CASE a.alert_type = "budget_overrun" ->
             \E i \in 1..Len(CategoryOrder) :
                 LET key == "\"category\":" \o JsonString(CategoryOrder[i]) \o ","
                 IN  Includes(a.data, key) /\ Includes(b.data, key)
      [] a.alert_type = "goal_progress" ->
             \E i \in 1..Len(goals) :
                 LET key == "\"goal_id\":" \o ToString(goals[i].id) \o ","
                 IN  Includes(a.data, key) /\ Includes(b.data, key)
      [] OTHER -> TRUE

\* C2: never two alerts of the same owner, type (low_cash, budget_overrun,
\* goal_progress) and discriminator created on the same calendar day.
C2_OneAlertPerDay ==
    \A i, j \in 1..Len(alerts) :
        (/\ i < j
         /\ alerts[i].user_id = alerts[j].user_id
         /\ alerts[i].alert_type = alerts[j].alert_type
         /\ alerts[i].alert_type \in {"low_cash", "budget_overrun", "goal_progress"}
         /\ alerts[i].created_at = alerts[j].created_at)
        => ~SameDiscriminator(alerts[i], alerts[j])

\* C3: a detectAnomalies run for an owner that follows an earlier run for the
\* same owner, with no change to the transaction store in between, creates no
\* anomaly row and no anomaly alert.
C3_SecondDetectionCreatesNothing ==
    (det.last.op = "anomalies" /\ det.last.second)
        => (det.last.newAnomalies = 0 /\ det.last.newAlerts = 0)

\* C4: recurring_transactions holds at most one row per (owner, description,
\* category).
C4_OneRowPerPattern ==
    \A i, j \in 1..Len(recurring) :
        (/\ recurring[i].user_id = recurring[j].user_id
         /\ recurring[i].description = recurring[j].description
         /\ recurring[i].category = recurring[j].category)
        => i = j

\* a detection run just found, for one owner, two patterns with the same
\* description and category (an expense and an income series) and added nothing
\* to the row it holds for them
C4_Witness ==
    /\ det.last.op = "recurring"
    /\ det.last.newRecurring = 0
    /\ LET patterns == DetectRecurringTransactions(det.last.user)
       IN  \E i, j \in 1..Len(patterns) :
               /\ i # j
               /\ patterns[i].description = patterns[j].description
               /\ patterns[i].category = patterns[j].category
               /\ AlreadyExists(recurring, det.last.user, patterns[i])

\* C5: after a progress check for an owner, every goal of the owner whose
\* current_amount has reached target_amount is in the completed set and not in
\* the active set.
C5_CompletedAfterProgressCheck ==
    det.last.op = "progress" =>
        \A i \in 1..Len(goals) :
            (/\ goals[i].user_id = det.last.user
             /\ goals[i].current_amount >= goals[i].target_amount)
            => /\ goals[i] \in SeqToSet(GetGoals(det.last.user, "completed"))
               /\ goals[i] \notin SeqToSet(GetGoals(det.last.user, "active"))

\* the messages the turn in progress (or the last turn) added to the log
TurnMessages == SubSeq(conversations, chat.base + 1, Len(conversations))

\* C6: in a turn at most one tool handler runs, a handler that ran is followed by
\* exactly one further model round trip and there is never a third one; the turn
\* inserts at most one transaction, and exactly one when addTransaction succeeded.
C6_OneHandlerOneRoundTrip ==
    /\ chat.handlers <= 1
    /\ chat.modelCalls <= 2
    /\ (chat.handlers = 1 => chat.modelCalls = 2)
    /\ (chat.call = "" => chat.modelCalls <= 1)
    /\ (chat.pc # "idle" => Len(transactions) - chat.txBase <= 1)
    /\ (chat.call = "addTransaction" /\ chat.result.success
            => Len(transactions) - chat.txBase = 1)

\* C7: while a model call of the turn is in flight the user's message is in the
\* log as a user-authored message, and when a successful turn has returned the
\* log of the turn starts with it and ends with the model-authored final text.
C7_UserMessageBeforeDispatch ==
    /\ chat.pc \in {"model1", "model2"} =>
           \E i \in 1..Len(TurnMessages) :
               /\ TurnMessages[i].role = "user"
               /\ TurnMessages[i].user_id = chat.user
               /\ TurnMessages[i].content = UserMessage
    /\ (chat.pc = "done" /\ chat.failedCall = 0 /\ chat.uncaught = "") =>
           /\ Len(TurnMessages) >= 2
           /\ TurnMessages[1].role = "user"
           /\ TurnMessages[1].content = UserMessage
           /\ TurnMessages[Len(TurnMessages)].role = "model"
           /\ TurnMessages[Len(TurnMessages)].content = chat.reply

\* C8: when a model call of the turn failed, the turn added no model-authored
\* message to the log.
C8_NoModelMessageOnFailure ==
    chat.failedCall # 0 =>
        \A i \in 1..Len(TurnMessages) : TurnMessages[i].role # "model"

\* C9: when a model call failed the turn has ended with a diagnostic: the
\* identity error if the message contains '403' or 'identity', otherwise the
\* unreachable error if it contains 'fetch failed', otherwise the generic
\* connection error.
C9_DiagnosticByPrecedence ==
    chat.failedCall # 0 =>
        LET identity == Includes(chat.err, "403") \/ Includes(chat.err, "identity")
            fetch == Includes(chat.err, "fetch failed")
        IN  /\ chat.pc = "done"
            /\ identity => chat.reply = IdentityError
            /\ (~identity /\ fetch) => chat.reply = UnreachableError
            /\ (~identity /\ ~fetch) =>
                   /\ chat.reply \notin {IdentityError, UnreachableError}
                   /\ Includes(chat.reply, "Connection Error: ")

\* the tool-result round trip failed with a message that matches both the
\* identity and the fetch test, and the identity error was returned
C9_Witness ==
    /\ chat.pc = "done"
    /\ chat.failedCall = 2
    /\ Includes(chat.err, "403")
    /\ Includes(chat.err, "fetch failed")
    /\ chat.reply = IdentityError

\* C10: when the dispatched handler threw, the error is the functionResult
\* {error: message}, no exception left the dispatch, and the result was sent
\* back to the model.
C10_HandlerErrorSentBack ==
    chat.threw =>
        /\ chat.uncaught = ""
        /\ ~chat.result.success
        /\ chat.result.error # ""
        /\ chat.modelCalls = 2

\* C11: the dispatch of a function call whose name is not a declared tool runs
\* no handler, leaves every store as it was, lets no exception out and sends
\* the result {error: "Unknown function"} back to the model.
C11_UnknownFunctionResult ==
    [][(/\ chat.pc = "model1"
        /\ chat'.call # ""
        /\ chat'.call \notin Declared(chat'.svc))
       => /\ UNCHANGED <<forecasts, transactions, budgets, goals, alerts, anomalies, recurring,
                         conversations, notifications>>
          /\ chat'.handlers = 0
          /\ ~chat'.threw
          /\ chat'.uncaught = ""
          /\ chat'.result = UnknownFunction
          /\ chat'.pc = "model2"
          /\ chat'.modelCalls = 2]_vars

\* the two-tool version was sent bulkCategorize with a vendor that matches rows
\* of the owner, and answered Unknown function
C11_Witness ==
    /\ chat.pc = "model2"
    /\ chat.svc = "legacy"
    /\ chat.call = "bulkCategorize"
    /\ chat.result = UnknownFunction
    /\ Changes(transactions, chat.user, RecatArgs.vendor) > 0

\* C12: a variance report holds, for every active budget of the owner,
\* variance = amount - actual and the status over exactly when actual > amount,
\* under exactly when actual <= amount and actual < amount * threshold, and
\* on_track otherwise; threshold is the budget's alert_threshold, 0.9 when it
\* has none.
C12_VarianceStatus ==
    [][GetBudgetVarianceCall =>
        /\ Len(out'.value) = Len(GetActiveBudgets(out'.user))
        /\ \A i \in 1..Len(out'.value) :
               LET v == out'.value[i]
                   b == v.budget
                   threshold == IF b.alert_threshold = NoThreshold THEN 90
                                ELSE b.alert_threshold
                   under == v.actual <= b.amount
                                /\ v.actual * 100 < b.amount * threshold
               IN  /\ b = GetActiveBudgets(out'.user)[i]
                   /\ v.variance = b.amount - v.actual
                   /\ v.status = "over" <=> v.actual > b.amount
                   /\ v.status = "under" <=> under
                   /\ v.status = "on_track" <=> (v.actual <= b.amount /\ ~under)]_vars

\* C13: the i-th projection of a forecast has confidence max(0.5, 0.9 - 0.1 i);
\* the confidences never rise along the forecast, are never below 0.5, and
\* are 0.8, 0.7, 0.6 for a forecast of three months.
C13_ConfidenceDecay ==
    [][ForecastCashFlowCall =>
        LET p == out'.value
        IN  /\ \A i \in 1..Len(p) :
                   /\ p[i].confidence = (IF 90 - 10 * i >= 50 THEN 90 - 10 * i ELSE 50)
                   /\ p[i].confidence >= 50
                   /\ i > 1 => p[i].confidence <= p[i - 1].confidence
            /\ Len(p) = 3 =>
                   <<p[1].confidence, p[2].confidence, p[3].confidence>> = <<80, 70, 60>>]_vars

\* a forecast of five months was returned: its last confidence is the floor
C13_Witness ==
    /\ out.op = "forecast"
    /\ Len(out.value) = 5
    /\ out.value[5].confidence = 50
    /\ out.value[3].confidence = 60

\* C14: a forecast request for an owner with fewer than two months of trend
\* data returns the empty sequence and saves no forecast row.
C14_EmptyBelowTwoMonths ==
    [][(ForecastCashFlowCall /\ Len(GetMonthlyTrends(out'.user, 6)) < 2) =>
        /\ out'.value = <<>>
        /\ forecasts' = forecasts]_vars

\* a forecast was asked for an owner with exactly one month of history
C14_Witness ==
    /\ out.op = "forecast"
    /\ Len(GetMonthlyTrends(out.user, 6)) = 1
    /\ out.value = <<>>
    /\ forecasts = <<>>

\* C15: a forecast request for an owner with at least two months of trend data
\* returns `months` projections and appends one row per projected month, in
\* order, after the rows already stored.
C15_OneRowPerProjectedMonth ==
    [][(ForecastCashFlowCall /\ Len(GetMonthlyTrends(out'.user, 6)) >= 2) =>
        /\ Len(out'.value) = out'.months
        /\ Len(forecasts') = Len(forecasts) + out'.months
        /\ SubSeq(forecasts', 1, Len(forecasts)) = forecasts
        /\ \A i \in 1..out'.months :
               LET row == forecasts'[Len(forecasts) + i]
               IN  /\ row.user_id = out'.user
                   /\ row.forecast_date = out'.value[i].month
                   /\ row.forecast_date = MonthOf(today) + i]_vars

\* the same owner asked twice: the store holds two rows for one month
C15_Witness ==
    \E i, j \in 1..Len(forecasts) :
        /\ i < j
        /\ forecasts[i].user_id = forecasts[j].user_id
        /\ forecasts[i].forecast_date = forecasts[j].forecast_date

\* C16: getAnomalousTransactions(owner, 3) returns, once each, exactly the
\* owner's transactions that belong to a (category, type) group of at least
\* three transactions and whose amount is greater than three times the mean
\* amount of the group.
C16_ExactlyAboveThreeTimesMean ==
    [][GetAnomalousTransactionsCall =>
        LET all == SeqToSet(transactions)
            Group(t) == {r \in all : /\ r.user_id = t.user_id
                                      /\ r.category = t.category
                                      /\ r.type = t.type}
            Total(t) == SumSeq(MapAmount(SelectSeq(transactions,
                                                   LAMBDA r : r \in Group(t))))
            expected == {t \in all : /\ t.user_id = out'.user
                                      /\ Cardinality(Group(t)) >= 3
                                      /\ t.amount * Cardinality(Group(t)) > 3 * Total(t)}
        IN  /\ SeqToSet(out'.value) = expected
            /\ Len(out'.value) = Cardinality(expected)]_vars

\* a read returned an outlier while the owner also holds a transaction whose
\* amount is exactly three times the mean of its group of at least three
C16_Witness ==
    /\ out.op = "anomalous"
    /\ out.value # <<>>
    /\ \E i \in 1..Len(transactions) :
           LET t == transactions[i]
               rows == GroupRows(out.user, t.category, t.type)
           IN  /\ t.user_id = out.user
               /\ Len(rows) >= 3
               /\ t.amount * Len(rows) = 3 * SumSeq(MapAmount(rows))
               /\ \A k \in 1..Len(out.value) : out.value[k] # t

C18_ClearOnlyTheOwner ==
    [][ClearConversationCall =>
        \A owner \in Users :
            out'.user = owner =>
                /\ \A limit \in 1..MaxLimit :
                       GetConversationHistory(owner, limit)' = {<<>>}
                /\ \A u \in Users \ {owner} :
                       UserMessages(conversations', u) = UserMessages(conversations, u)]_vars

\* an owner with messages cleared the history while another owner had messages
C18_Witness ==
    /\ out.op = "clear"
    /\ UserMessages(out.was, out.user) # <<>>
    /\ UserMessages(conversations, out.user) = <<>>
    /\ \E u \in Users \ {out.user} :
           /\ UserMessages(out.was, u) # <<>>
           /\ UserMessages(conversations, u) = UserMessages(out.was, u)

\* C19: streamChat has emitted a chunk only when the chat turn it streams has
\* returned (model round trips, tool execution and saves done); the chunks
\* emitted so far are the start of the text chat returned, and all of them
\* together are that text.
C19_ChunksAfterChatAndEqualReply ==
    out.op = "stream" =>
        /\ out.chunks # <<>>
        /\ out.turn < chat.turn \/ (out.turn = chat.turn /\ chat.pc = "done")
        /\ out.turn = chat.turn => out.full = chat.reply
        /\ Len(Concat(out.chunks)) <= Len(out.full)
        /\ Concat(out.chunks) = SubSeq(out.full, 1, Len(Concat(out.chunks)))
        /\ Len(out.chunks) = Len(out.words) => Concat(out.chunks) = out.full

\* a turn that ran the addTransaction handler was streamed to the end, and its
\* text holds two spaces in a row
C19_Witness ==
    /\ out.op = "stream"
    /\ out.turn = chat.turn
    /\ chat.call = "addTransaction"
    /\ chat.result.success
    /\ Len(out.chunks) = Len(out.words)
    /\ Includes(out.full, "  ")
    /\ Concat(out.chunks) = chat.reply

\* the place of an insight in the stated order: the cash warning, the budget
\* warnings, then the high-share, the increasing and the decreasing insights
InsightRank(x) ==
    CASE x.title = "Low cash reserves" -> 0
      [] x.title = "budget exceeded" -> 1
      [] x.title = "is a share of total expenses" -> 2
      [] x.title = "costs are increasing" -> 3
      [] x.title = "Great job reducing costs" -> 4

\* C20: generateInsights returns at most 10 insights; the cash warning is
\* among them exactly when the balance is below 10000 and is then the first;
\* after it come the budget-overrun warnings, then the spending insights with
\* every high-share insight before every increasing-trend insight, and every
\* increasing-trend insight before every decreasing-trend insight.
C20_InsightOrder ==
    [][GenerateInsightsCall =>
          LET v == out'.value
          IN  /\ Len(v) <= 10
              /\ (\E i \in 1..Len(v) : InsightRank(v[i]) = 0)
                     <=> GetFinancialSummary(out'.user).profit < 10000
              /\ \A i, j \in 1..Len(v) :
                     i < j => InsightRank(v[i]) <= InsightRank(v[j])]_vars

\* C21: every row of the transactions table has amount > 0, whichever path
\* wrote it: POST /api/transactions, PUT /api/transactions/:id, the custom
\* webhook or the addTransaction tool.
C21_AmountsPositive ==
    \A i \in 1..Len(transactions) : transactions[i].amount > 0

\* C22: under any interleaving of detectAnomalies and markAnomalyAsReviewed the
\* anomalies table holds at most one row per (owner, transaction_id): a
\* detection that runs after a review does not record the transaction again.
C22_OneAnomalyPerTransaction ==
    \A i, j \in 1..Len(anomalies) :
        (/\ anomalies[i].user_id = anomalies[j].user_id
         /\ anomalies[i].transaction_id = anomalies[j].transaction_id)
        => i = j

\* the at-risk alert of goal g: a goal_progress warning whose data names g
AtRiskAlertOf(a, g) ==
    /\ a.user_id = g.user_id
    /\ a.alert_type = "goal_progress"
    /\ a.severity = "warning"
    /\ Includes(a.data, "\"goal_id\":" \o ToString(g.id) \o ",")

\* C23: when monitorGoals has run for an owner, every active goal of the owner
\* with a deadline, fewer than 30 days remaining (0 and negative included) and
\* not on track has a goal_progress at-risk alert created today.
C23_AtRiskAlertExists ==
    [][\A s \in Slots :
          MonGoals(s) =>
              \A i \in 1..Len(goals) :
                  (/\ goals[i].user_id = mon[s].user
                   /\ goals[i].status = "active"
                   /\ goals[i].deadline # NoDate
                   /\ goals[i].deadline - today < 30
                   /\ ~OnTrack(goals[i]))
                  => \E k \in 1..Len(alerts') :
                         /\ AtRiskAlertOf(alerts'[k], goals[i])
                         /\ alerts'[k].created_at = today]_vars

\* an alert of the given owner and type whose data names the discriminator
\* under the given key
AlertFor(al, userId, type, key, discriminator) ==
    \E k \in 1..Len(al) :
        /\ al[k].user_id = userId
        /\ al[k].alert_type = type
        /\ Includes(al[k].data, "\"" \o key \o "\":" \o discriminator \o ",")

\* C24: deduplication is per discriminator: when monitorBudgets finds category
\* X at or over its threshold, or monitorGoals finds goal G at risk or at its
\* milestone, and creates no alert for it, an alert of the same type whose
\* discriminator is X (or G) exists already; an alert for another category or
\* goal does not suppress the creation.
C24_SuppressedOnlyBySameDiscriminator ==
    [][\A s \in Slots :
          /\ MonBudgets(s) =>
                 LET found == CheckBudgetAlerts(mon[s].user)
                 IN  \A i \in 1..Len(found) :
                         AlertFor(alerts', mon[s].user, "budget_overrun", "category",
                                  JsonString(found[i].budget.category))
          /\ MonGoals(s) =>
                 LET progress == GetGoalProgress(mon[s].user)
                 IN  \A i \in 1..Len(progress) :
                         (GoalAtRisk(progress[i]) \/ GoalAtMilestone(progress[i]))
                         => AlertFor(alerts', mon[s].user, "goal_progress", "goal_id",
                                     ToString(progress[i].goal.id))]_vars

\* C25: every Anomaly row detectAnomalies creates stores severity = amount /
\* mean, with the mean of the transaction's own (category, type) group, the
\* mean it was flagged with; so every stored severity is greater than 3.
C25_SeverityFromOwnGroup ==
    [][DetectAnomaliesCall =>
          \A k \in (Len(anomalies) + 1)..Len(anomalies') :
              LET a == anomalies'[k]
                  t == transactions[a.transaction_id]
                  rows == GroupRows(a.user_id, t.category, t.type)
              IN  /\ a.sev_num * SumSeq(MapAmount(rows))
                         = a.sev_den * t.amount * Len(rows)
                  /\ a.sev_num > AnomalyThreshold * a.sev_den]_vars

\* C26: within a conversation turn the transactions table changes only in the
\* dispatch of an addTransaction or a bulkCategorize call: a turn without a
\* function call, every other declared handler, an undeclared name and the
\* model round trips leave every row as it was.
C26_OnlyTwoToolsWrite ==
    [][transactions' # transactions =>
          /\ chat.pc = "model1"
          /\ chat'.call \in {"addTransaction", "bulkCategorize"}
          /\ chat'.handlers = 1]_vars

\* in the second turn the getAnomalies handler ran and answered, and the
\* ledger, which the first turn had extended, is as the turn found it
C26_Witness ==
    /\ chat.pc = "done"
    /\ chat.turn = 2
    /\ chat.svc = "current"
    /\ chat.call = "getAnomalies"
    /\ chat.result.success
    /\ Len(transactions) = chat.txBase
    /\ Len(transactions) > Len(LedgerQuiet)

\* row t passes every filter the call carries
Satisfies(t, userId, q) ==
    /\ t.user_id = userId
    /\ q.category # "" => t.category = q.category
    /\ q.startDate # NoDate => t.date >= q.startDate
    /\ q.endDate # NoDate => t.date <= q.endDate
    /\ q.minAmount # NoFilter => t.amount >= q.minAmount
    /\ q.maxAmount # NoFilter => t.amount <= q.maxAmount
    /\ q.type # "" => t.type = q.type

\* C27: the queryTransactions tool returns only transactions of the owner
\* that satisfy every filter the call carries (category, startDate, endDate,
\* minAmount, maxAmount, type), whatever the combination of filters.
C27_OnlyMatchingRows ==
    out.op = "query" =>
        \A i \in 1..Len(out.value.data) :
            Satisfies(out.value.data[i], out.user, out.args)

\* the description contains the vendor string, letter case aside
ContainsVendor(t, vendor) == Includes(ToLower(t.description), ToLower(vendor))

\* C28: a bulkCategorize call that succeeds sets the category of exactly the
\* calling owner's transactions whose description contains the vendor string,
\* reports their number, and leaves every other row (the owner's other rows
\* and all rows of other owners) as it was.
C28_ExactlyTheVendorRows ==
    [][(BulkCategorizeCall /\ out'.value.success) =>
          LET a == out'.args
              hit == {i \in 1..Len(transactions) :
                         /\ transactions[i].user_id = out'.user
                         /\ ContainsVendor(transactions[i], a.vendor)}
          IN  /\ Len(transactions') = Len(transactions)
              /\ \A i \in 1..Len(transactions) :
                     transactions'[i] =
                         IF i \in hit
                         THEN [transactions[i] EXCEPT !.category = a.newCategory]
                         ELSE transactions[i]
              /\ Includes(out'.value.message,
                          "updated " \o ToString(Cardinality(hit)) \o " transactions")]_vars

\* C29: in a turn whose function call is addTransaction, the result handed to
\* the model for the second request says success exactly when the call
\* inserted a Transaction row; a notification or message save that fails
\* after the insert leaves the row in place and is not reported as a failed
\* transaction.
C29_SuccessIffInserted ==
    [][(chat.pc = "model1" /\ chat'.pc = "model2" /\ chat'.call = "addTransaction") =>
          (chat'.result.success <=> Len(transactions') = Len(transactions) + 1)]_vars

=============================================================================
